---- MODULE Spec2Model ----
(***************************************************************************)
(* The bathroom pricing engine: SmartPricingEngine (src/pricing_engine.py) *)
(* with its four rule engines MaterialDatabase, LaborCalculator, VATRules  *)
(* and ConfidenceScorer (src/pricing_logic/).                              *)
(*                                                                         *)
(* Numbers.  The source computes in binary floating point.  Here every     *)
(* amount is an exact fraction [num, den] in lowest terms, so 0.95 is      *)
(* 19/20 and round(x, 2) is an exact rounding to hundredths (ties to       *)
(* even).  size ** 0.5 is exact for sizes whose root has at most three     *)
(* decimals and is cut to three decimals otherwise.                        *)
(*                                                                         *)
(* Text.  A Python str is a sequence of one-character strings; the         *)
(* character U+00B2 (superscript two) is written "^2".                     *)
(***************************************************************************)
EXTENDS Integers, Sequences, FiniteSets, TLC

\* ------------------------------------------------------------------------
\* Exact arithmetic
\* ------------------------------------------------------------------------
RECURSIVE GCD(_, _)
GCD(a, b) == IF b = 0 THEN a ELSE GCD(b, a % b)

\* The fraction n/d (n >= 0, d > 0) in lowest terms.
Rat(n, d) == LET g == GCD(n, d) IN [num |-> n \div g, den |-> d \div g]

Zero == Rat(0, 1)
One == Rat(1, 1)

RMul(x, y) ==
    LET g1 == GCD(x.num, y.den)
        g2 == GCD(y.num, x.den)
    IN  Rat((x.num \div g1) * (y.num \div g2), (x.den \div g2) * (y.den \div g1))

RAdd(x, y) ==
    LET g == GCD(x.den, y.den)
    IN  Rat(x.num * (y.den \div g) + y.num * (x.den \div g), (x.den \div g) * y.den)

\* x / k for a positive integer k.
RDivInt(x, k) == RMul(x, Rat(1, k))

RECURSIVE Pow10(_)
Pow10(k) == IF k = 0 THEN 1 ELSE 10 * Pow10(k - 1)

\* Python's round(x, k): the nearest multiple of 10^-k, a tie going to the
\* even one.
Round(x, k) ==
    LET scale == Pow10(k)
        q     == x.num \div x.den
        r     == x.num % x.den
        whole == q * scale + ((r * scale) \div x.den)
        rest  == (r * scale) % x.den
        up    == (2 * rest > x.den) \/ (2 * rest = x.den /\ whole % 2 = 1)
    IN  Rat(IF up THEN whole + 1 ELSE whole, scale)

\* The largest r with r * r <= n, by bisection on lo <= r < hi.
RECURSIVE SqrtSearch(_, _, _)
SqrtSearch(n, lo, hi) ==
    IF hi - lo <= 1 THEN lo
    ELSE LET mid == (lo + hi) \div 2
         IN  IF mid * mid <= n THEN SqrtSearch(n, mid, hi) ELSE SqrtSearch(n, lo, mid)

\* x ** 0.5 to three decimals.
Sqrt(x) == Rat(SqrtSearch((x.num * 1000000) \div x.den, 0, 46341), 1000)

RECURSIVE RSum(_)
RSum(xs) == IF xs = <<>> THEN Zero ELSE RAdd(xs[1], RSum(Tail(xs)))

\* ------------------------------------------------------------------------
\* Text
\* ------------------------------------------------------------------------
UpperCase == <<"A", "B", "C", "D", "E", "F", "G", "H", "I", "J", "K", "L", "M",
               "N", "O", "P", "Q", "R", "S", "T", "U", "V", "W", "X", "Y", "Z">>
LowerCase == <<"a", "b", "c", "d", "e", "f", "g", "h", "i", "j", "k", "l", "m",
               "n", "o", "p", "q", "r", "s", "t", "u", "v", "w", "x", "y", "z">>
Digits == <<"0", "1", "2", "3", "4", "5", "6", "7", "8", "9">>
Whitespace == {" "}

\* str.lower(): a capital letter becomes its small letter, any other
\* character is kept.
LowerChar(c) ==
    IF \E i \in 1..Len(UpperCase) : UpperCase[i] = c
    THEN LowerCase[CHOOSE i \in 1..Len(UpperCase) : UpperCase[i] = c]
    ELSE c

Lower(s) == [i \in 1..Len(s) |-> LowerChar(s[i])]

\* str.strip(): without the leading and the trailing whitespace.
Strip(s) ==
    LET inked == {i \in 1..Len(s) : s[i] \notin Whitespace}
    IN  IF inked = {} THEN <<>>
        ELSE SubSeq(s, CHOOSE i \in inked : \A j \in inked : i <= j,
                       CHOOSE i \in inked : \A j \in inked : j <= i)

\* Python's "w in s" for strings: w occurs in s as a substring.
Contains(s, w) ==
    \E i \in 1..(Len(s) - Len(w) + 1) : SubSeq(s, i, i + Len(w) - 1) = w

IsDigit(c) == \E i \in 1..Len(Digits) : Digits[i] = c
DigitValue(c) == (CHOOSE i \in 1..Len(Digits) : Digits[i] = c) - 1

\* The value of a run of digits, read as a decimal integer.
RECURSIVE DigitsValue(_)
DigitsValue(ds) ==
    IF ds = <<>> THEN 0
    ELSE 10 * DigitsValue(SubSeq(ds, 1, Len(ds) - 1)) + DigitValue(ds[Len(ds)])

\* The first position at or after i that holds no digit (no whitespace).
RECURSIVE SkipDigits(_, _)
SkipDigits(s, i) ==
    IF i <= Len(s) /\ IsDigit(s[i]) THEN SkipDigits(s, i + 1) ELSE i

RECURSIVE SkipSpace(_, _)
SkipSpace(s, i) ==
    IF i <= Len(s) /\ s[i] \in Whitespace THEN SkipSpace(s, i + 1) ELSE i

\* Python values handed to the engine as a transcript: a str, None, or an int.
Str(chars) == [type |-> "str", chars |-> chars]
NoneValue == [type |-> "NoneType", chars |-> <<>>]
IntValue == [type |-> "int", chars |-> <<>>]

\* Python truthiness: a str is true unless empty, None is false, the int
\* (123) is true.
Truthy(v) ==
    CASE v.type = "str" -> v.chars # <<>>
      [] v.type = "NoneType" -> FALSE
      [] OTHER -> TRUE

\* Keyword and city-name literals of the source, and the words that
\* get_flag_summary looks for in a flag, as character sequences.
Words ==
    [marseille |-> <<"m", "a", "r", "s", "e", "i", "l", "l", "e">>,
     paris |-> <<"p", "a", "r", "i", "s">>,
     nice |-> <<"n", "i", "c", "e">>,
     lyon |-> <<"l", "y", "o", "n">>,
     toulouse |-> <<"t", "o", "u", "l", "o", "u", "s", "e">>,
     nantes |-> <<"n", "a", "n", "t", "e", "s">>,
     strasbourg |-> <<"s", "t", "r", "a", "s", "b", "o", "u", "r", "g">>,
     montpellier |-> <<"m", "o", "n", "t", "p", "e", "l", "l", "i", "e", "r">>,
     tiles |-> <<"t", "i", "l", "e", "s">>,
     tile |-> <<"t", "i", "l", "e">>,
     ceramic |-> <<"c", "e", "r", "a", "m", "i", "c">>,
     porcelain |-> <<"p", "o", "r", "c", "e", "l", "a", "i", "n">>,
     plumbing |-> <<"p", "l", "u", "m", "b", "i", "n", "g">>,
     shower |-> <<"s", "h", "o", "w", "e", "r">>,
     bath |-> <<"b", "a", "t", "h">>,
     sink |-> <<"s", "i", "n", "k">>,
     toilet |-> <<"t", "o", "i", "l", "e", "t">>,
     paint |-> <<"p", "a", "i", "n", "t">>,
     repaint |-> <<"r", "e", "p", "a", "i", "n", "t">>,
     wall |-> <<"w", "a", "l", "l">>,
     floor |-> <<"f", "l", "o", "o", "r">>,
     flooring |-> <<"f", "l", "o", "o", "r", "i", "n", "g">>,
     laying |-> <<"l", "a", "y", "i", "n", "g">>,
     vanity |-> <<"v", "a", "n", "i", "t", "y">>,
     cabinet |-> <<"c", "a", "b", "i", "n", "e", "t">>,
     storage |-> <<"s", "t", "o", "r", "a", "g", "e">>,
     electrical |-> <<"e", "l", "e", "c", "t", "r", "i", "c", "a", "l">>,
     lighting |-> <<"l", "i", "g", "h", "t", "i", "n", "g">>,
     outlet |-> <<"o", "u", "t", "l", "e", "t">>,
     switch |-> <<"s", "w", "i", "t", "c", "h">>,
     budget |-> <<"b", "u", "d", "g", "e", "t">>,
     cheap |-> <<"c", "h", "e", "a", "p">>,
     affordable |-> <<"a", "f", "f", "o", "r", "d", "a", "b", "l", "e">>,
     economy |-> <<"e", "c", "o", "n", "o", "m", "y">>,
     size |-> <<"s", "i", "z", "e">>,
     small |-> <<"s", "m", "a", "l", "l">>,
     large |-> <<"l", "a", "r", "g", "e">>,
     task |-> <<"t", "a", "s", "k">>,
     price |-> <<"p", "r", "i", "c", "e">>,
     low |-> <<"l", "o", "w">>,
     high |-> <<"h", "i", "g", "h">>,
     location |-> <<"l", "o", "c", "a", "t", "i", "o", "n">>]

\* Pieces of text that transcripts are put together from.
Fragment ==
    [Paris |-> <<"P", "a", "r", "i", "s">>,   \* "Paris"
     marseille |-> <<"m", "a", "r", "s", "e", "i", "l", "l", "e">>,   \* "marseille"
     a_nice |-> <<"a", " ", "n", "i", "c", "e">>,   \* "a nice"
     tiles |-> <<"t", "i", "l", "e", "s">>,   \* "tiles"
     plumbing |-> <<"p", "l", "u", "m", "b", "i", "n", "g">>,   \* "plumbing"
     bathroom |-> <<"b", "a", "t", "h", "r", "o", "o", "m">>,   \* "bathroom"
     Repaint |-> <<"R", "e", "p", "a", "i", "n", "t">>,   \* "Repaint"
     floor |-> <<"f", "l", "o", "o", "r">>,   \* "floor"
     size_4m2 |-> <<"4", "m", "^2">>,   \* "4m²"
     size_12_5_M2 |-> <<"1", "2", ".", "5", " ", "M", "^2">>,   \* "12.5 M²"
     size_0m2 |-> <<"0", "m", "^2">>,   \* "0m²"
     budget |-> <<"b", "u", "d", "g", "e", "t">>,   \* "budget"
     kitchen |-> <<"k", "i", "t", "c", "h", "e", "n">>]   \* "kitchen"

\* Transcripts handed to the engine.
Text ==
    \* "4m² bathroom renovation with tiles and plumbing in Marseille"
    [Marseille |->
        <<"4", "m", "^2", " ", "b", "a", "t", "h", "r", "o", "o", "m", " ", "r", "e", "n", "o",
          "v", "a", "t", "i", "o", "n", " ", "w", "i", "t", "h", " ", "t", "i", "l", "e", "s", " ",
          "a", "n", "d", " ", "p", "l", "u", "m", "b", "i", "n", "g", " ", "i", "n", " ", "M", "a",
          "r", "s", "e", "i", "l", "l", "e">>,
    \* "Renovate bathroom in Paris"
     Paris |->
        <<"R", "e", "n", "o", "v", "a", "t", "e", " ", "b", "a", "t", "h", "r", "o", "o", "m", " ",
          "i", "n", " ", "P", "a", "r", "i", "s">>,
    \* "Install vanity and paint walls"
     Vanity |->
        <<"I", "n", "s", "t", "a", "l", "l", " ", "v", "a", "n", "i", "t", "y", " ", "a", "n", "d",
          " ", "p", "a", "i", "n", "t", " ", "w", "a", "l", "l", "s">>,
    \* "Budget 4m² bathroom renovation in Marseille"
     Budget |->
        <<"B", "u", "d", "g", "e", "t", " ", "4", "m", "^2", " ", "b", "a", "t", "h", "r", "o",
          "o", "m", " ", "r", "e", "n", "o", "v", "a", "t", "i", "o", "n", " ", "i", "n", " ", "M",
          "a", "r", "s", "e", "i", "l", "l", "e">>,
    \* "Luxury 4m² bathroom renovation in Marseille"
     Luxury |->
        <<"L", "u", "x", "u", "r", "y", " ", "4", "m", "^2", " ", "b", "a", "t", "h", "r", "o",
          "o", "m", " ", "r", "e", "n", "o", "v", "a", "t", "i", "o", "n", " ", "i", "n", " ", "M",
          "a", "r", "s", "e", "i", "l", "l", "e">>,
    \* "16m² tiles floor vanity outlet paint shower paris"
     Large |->
        <<"1", "6", "m", "^2", " ", "t", "i", "l", "e", "s", " ", "f", "l", "o", "o", "r", " ",
          "v", "a", "n", "i", "t", "y", " ", "o", "u", "t", "l", "e", "t", " ", "p", "a", "i", "n",
          "t", " ", "s", "h", "o", "w", "e", "r", " ", "p", "a", "r", "i", "s">>,
    \* "1m² paint job in lyon budget"
     Small |->
        <<"1", "m", "^2", " ", "p", "a", "i", "n", "t", " ", "j", "o", "b", " ", "i", "n", " ",
          "l", "y", "o", "n", " ", "b", "u", "d", "g", "e", "t">>,
    \* "0m² empty room nothing"
     Zero |->
        <<"0", "m", "^2", " ", "e", "m", "p", "t", "y", " ", "r", "o", "o", "m", " ", "n", "o",
          "t", "h", "i", "n", "g">>,
    \* "short"
     Short |->
        <<"s", "h", "o", "r", "t">>,
    \* "   a        "
     Padded |->
        <<" ", " ", " ", "a", " ", " ", " ", " ", " ", " ", " ", " ">>,
    \* ""
     Empty |->
        <<>>,
    \* "Renovate bathroom in Marseille"
     RenovateMarseille |->
        <<"R", "e", "n", "o", "v", "a", "t", "e", " ", "b", "a", "t", "h", "r", "o", "o", "m",
          " ", "i", "n", " ", "M", "a", "r", "s", "e", "i", "l", "l", "e">>,
    \* "4m² bathroom renovation with tiles and plumbing in Paris"
     ScenarioParis |->
        <<"4", "m", "^2", " ", "b", "a", "t", "h", "r", "o", "o", "m", " ", "r", "e", "n", "o",
          "v", "a", "t", "i", "o", "n", " ", "w", "i", "t", "h", " ", "t", "i", "l", "e", "s",
          " ", "a", "n", "d", " ", "p", "l", "u", "m", "b", "i", "n", "g", " ", "i", "n", " ",
          "P", "a", "r", "i", "s">>]

\* ------------------------------------------------------------------------
\* SmartPricingEngine: the requirement extractor
\* ------------------------------------------------------------------------

\* self.city_multipliers, in insertion order.
city_multipliers ==
    << [city |-> "marseille",   chars |-> Words.marseille,   multiplier |-> Rat(100, 100)],
       [city |-> "paris",       chars |-> Words.paris,       multiplier |-> Rat(130, 100)],
       [city |-> "nice",        chars |-> Words.nice,        multiplier |-> Rat(125, 100)],
       [city |-> "lyon",        chars |-> Words.lyon,        multiplier |-> Rat(115, 100)],
       [city |-> "toulouse",    chars |-> Words.toulouse,    multiplier |-> Rat(110, 100)],
       [city |-> "nantes",      chars |-> Words.nantes,      multiplier |-> Rat(105, 100)],
       [city |-> "strasbourg",  chars |-> Words.strasbourg,  multiplier |-> Rat(110, 100)],
       [city |-> "montpellier", chars |-> Words.montpellier, multiplier |-> Rat(105, 100)] >>

Cities == {city_multipliers[i].city : i \in 1..Len(city_multipliers)}

\* self.city_multipliers[location]
\* A variant of the city table's lookup that prices every city as marseille.
UnitMultiplier(location) == [num |-> 1, den |-> 1]

CityMultiplier(location) ==
    city_multipliers[CHOOSE i \in 1..Len(city_multipliers) :
                         city_multipliers[i].city = location].multiplier

\* for city in cities: if city in transcript: return city
RECURSIVE ExtractLocationFrom(_, _)
ExtractLocationFrom(transcript, i) ==
    IF i > Len(city_multipliers) THEN "marseille"
    ELSE IF Contains(transcript, city_multipliers[i].chars) THEN city_multipliers[i].city
    ELSE ExtractLocationFrom(transcript, i + 1)

\* A variant of _extract_location whose loop keeps the last city found
\* instead of returning at the first.
extract_last_location(transcript) ==
    LET found == {i \in 1..Len(city_multipliers) :
                     Contains(transcript, city_multipliers[i].chars)}
    IN  IF found = {} THEN "marseille"
        ELSE city_multipliers[CHOOSE i \in found : \A j \in found : j <= i].city

extract_location(transcript) == ExtractLocationFrom(transcript, 1)

\* task_keywords of _extract_tasks, in insertion order.
task_keywords ==
    << [task |-> "tiles",      keywords |-> <<Words.tiles, Words.tile, Words.ceramic, Words.porcelain>>],
       [task |-> "plumbing",   keywords |-> <<Words.plumbing, Words.shower, Words.bath, Words.sink, Words.toilet>>],
       [task |-> "painting",   keywords |-> <<Words.paint, Words.repaint, Words.wall>>],
       [task |-> "flooring",   keywords |-> <<Words.floor, Words.flooring, Words.laying>>],
       [task |-> "vanity",     keywords |-> <<Words.vanity, Words.cabinet, Words.storage>>],
       [task |-> "electrical", keywords |-> <<Words.electrical, Words.lighting, Words.outlet, Words.switch>>] >>

TaskTypes == {task_keywords[i].task : i \in 1..Len(task_keywords)}

\* any(keyword in transcript for keyword in keywords)
AnyKeyword(transcript, keywords) ==
    \E k \in 1..Len(keywords) : Contains(transcript, keywords[k])

\* for task_type, keywords in task_keywords.items(): ... detected_tasks.append
RECURSIVE ExtractTasksFrom(_, _, _)
ExtractTasksFrom(transcript, i, detected_tasks) ==
    IF i > Len(task_keywords) THEN detected_tasks
    ELSE ExtractTasksFrom(transcript, i + 1,
             IF AnyKeyword(transcript, task_keywords[i].keywords)
             THEN Append(detected_tasks, task_keywords[i].task)
             ELSE detected_tasks)

\* A variant of _extract_tasks that inserts each detected task at the front
\* of the list instead of appending it.
extract_tasks_prepending(transcript) ==
    LET detected_tasks == ExtractTasksFrom(transcript, 1, <<>>)
    IN  [i \in 1..Len(detected_tasks) |-> detected_tasks[Len(detected_tasks) + 1 - i]]

extract_tasks(transcript) == ExtractTasksFrom(transcript, 1, <<>>)

\* A variant of the budget test that knows no budget word.
no_budget_words == <<>>

budget_words == <<Words.budget, Words.cheap, Words.affordable, Words.economy>>

\* The pattern (\d+(?:\.\d+)?)\s*m² tried at position i: the position after
\* group 1 when it matches there, 0 when it does not.
SizeMatchAt(s, i) ==
    IF ~(i <= Len(s) /\ IsDigit(s[i])) THEN 0
    ELSE LET j == SkipDigits(s, i)
             k == IF j + 1 <= Len(s) /\ s[j] = "." /\ IsDigit(s[j + 1])
                  THEN SkipDigits(s, j + 1) ELSE j
             m == SkipSpace(s, k)
         IN  IF m + 1 <= Len(s) /\ s[m] = "m" /\ s[m + 1] = "^2" THEN k ELSE 0

\* float(text) of digits with an optional fraction.
Float(text) ==
    LET dots == {i \in 1..Len(text) : text[i] = "."}
    IN  IF dots = {} THEN Rat(DigitsValue(text), 1)
        ELSE LET p    == CHOOSE i \in dots : TRUE
                 frac == SubSeq(text, p + 1, Len(text))
             IN  Rat(DigitsValue(SubSeq(text, 1, p - 1)) * Pow10(Len(frac))
                         + DigitsValue(frac), Pow10(Len(frac)))

\* re.search(...): the leftmost match; then float(group(1)), or 4.0.
ExtractSize(transcript_lower) ==
    LET starts == {i \in 1..Len(transcript_lower) : SizeMatchAt(transcript_lower, i) # 0}
    IN  IF starts = {} THEN Rat(4, 1)
        ELSE LET i == CHOOSE a \in starts : \A b \in starts : a <= b
             IN  Float(SubSeq(transcript_lower, i, SizeMatchAt(transcript_lower, i) - 1))

NoRequirements ==
    [bathroom_size |-> Zero, location |-> "", tasks |-> <<>>,
     budget_conscious |-> FALSE, original_transcript |-> NoneValue]

\* What a call gives back: the exception it raised ("" when it returned) and
\* the value it returned.
Raise(exception, nothing) == [exc |-> exception, value |-> nothing]
Return(value) == [exc |-> "", value |-> value]

\* Whether parse_transcript rejects the transcript (both raise ValueError).
\* A variant of the validation without the length test.
RejectsEmptyOnly(transcript) == ~Truthy(transcript) \/ transcript.type # "str"

RejectsTranscript(transcript) ==
    \/ ~Truthy(transcript) \/ transcript.type # "str"
    \/ Len(Strip(transcript.chars)) < 10

\* A variant of the task default that leaves an empty task list empty.
KeepTasks(tasks) == tasks

\* if not tasks: tasks = ['painting']
DefaultTasks(tasks) == IF tasks = <<>> THEN <<"painting">> ELSE tasks

parse_transcript(transcript) ==
    IF RejectsTranscript(transcript) THEN Raise("ValueError", NoRequirements)
    ELSE LET transcript_lower == Strip(Lower(transcript.chars))
             tasks == extract_tasks(transcript_lower)
         IN  Return([bathroom_size |-> ExtractSize(transcript_lower),
                     location |-> extract_location(transcript_lower),
                     tasks |-> DefaultTasks(tasks),
                     budget_conscious |-> AnyKeyword(transcript_lower, budget_words),
                     original_transcript |-> transcript])

\* ------------------------------------------------------------------------
\* Values of the rule tables
\* ------------------------------------------------------------------------

\* A table entry that holds None instead of a number: the update methods
\* store whatever value they are given.
None == [num |-> 0, den |-> 0]
IsNumber(v) == v.den # 0
AllNumbers(vs) == \A i \in 1..Len(vs) : IsNumber(vs[i])

RSub(x, y) ==
    LET g == GCD(x.den, y.den)
    IN  Rat(x.num * (y.den \div g) - y.num * (x.den \div g), (x.den \div g) * y.den)

RDiv(x, y) == RMul(x, [num |-> y.den, den |-> y.num])

\* x <= y, comparing the whole parts first so that no product overflows.
Leq(x, y) ==
    LET qx == x.num \div x.den
        qy == y.num \div y.den
    IN  IF qx # qy THEN qx < qy
        ELSE (x.num % x.den) * y.den <= (y.num % y.den) * x.den

Less(x, y) == ~Leq(y, x)
RMin(x, y) == IF Leq(x, y) THEN x ELSE y
RMax(x, y) == IF Leq(x, y) THEN y ELSE x

\* dict.get(key, default)
Get(d, key, default) == IF key \in DOMAIN d THEN d[key] ELSE default

\* dict.update(u): the keys of u replaced or added, the others kept.
DictUpdate(d, u) ==
    [k \in (DOMAIN d) \cup (DOMAIN u) |-> IF k \in DOMAIN u THEN u[k] ELSE d[k]]

\* The sum of f[k] over the keys k of a dict of numbers.
RECURSIVE SumValues(_, _)
SumValues(f, keys) ==
    IF keys = {} THEN Zero
    ELSE LET k == CHOOSE a \in keys : TRUE
         IN  RAdd(f[k], SumValues(f, keys \ {k}))

\* ------------------------------------------------------------------------
\* MaterialDatabase
\* ------------------------------------------------------------------------
DefaultMaterials ==
    [tiles |->
        [base_cost_per_m2 |-> Rat(45, 1), size_factor |-> Rat(95, 100),
         quality_multipliers |-> [basic |-> Rat(8, 10), standard |-> Rat(10, 10),
                                  premium |-> Rat(14, 10), luxury |-> Rat(20, 10)]],
     plumbing |->
        [shower |-> [base_cost |-> Rat(180, 1), size_factor |-> Rat(90, 100)],
         toilet |-> [base_cost |-> Rat(120, 1), size_factor |-> Rat(100, 100)],
         sink   |-> [base_cost |-> Rat(85, 1),  size_factor |-> Rat(95, 100)],
         bath   |-> [base_cost |-> Rat(350, 1), size_factor |-> Rat(110, 100)]],
     painting |->
        [base_cost_per_m2 |-> Rat(85, 10), size_factor |-> Rat(105, 100),
         coats |-> Rat(2, 1),
         quality_multipliers |-> [basic |-> Rat(7, 10), standard |-> Rat(10, 10),
                                  premium |-> Rat(13, 10)]],
     flooring |->
        [base_cost_per_m2 |-> Rat(32, 1), size_factor |-> Rat(98, 100),
         quality_multipliers |-> [basic |-> Rat(8, 10), standard |-> Rat(10, 10),
                                  premium |-> Rat(15, 10)]],
     vanity |->
        [base_cost |-> Rat(220, 1), size_factor |-> Rat(100, 100),
         quality_multipliers |-> [basic |-> Rat(7, 10), standard |-> Rat(10, 10),
                                  premium |-> Rat(16, 10)]],
     electrical |->
        [base_cost |-> Rat(45, 1), size_factor |-> Rat(100, 100),
         per_outlet |-> Rat(15, 1)]]

\* wall_area = (bathroom_size ** 0.5 * 4) * wall_height, wall_height = 2.4
WallArea(bathroom_size) == RMul(RMul(Sqrt(bathroom_size), Rat(4, 1)), Rat(24, 10))

\* A product of numbers; it raises TypeError when a factor is None.
RECURSIVE Product(_)
Product(vs) == IF vs = <<>> THEN One ELSE RMul(vs[1], Product(Tail(vs)))

calculate_tiles_cost(task_materials, bathroom_size, quality) ==
    LET base_cost    == task_materials.base_cost_per_m2
        size_factor  == task_materials.size_factor
        quality_mult == Get(task_materials.quality_multipliers, quality, One)
        factors      == <<WallArea(bathroom_size), base_cost, size_factor, quality_mult>>
    IN  IF AllNumbers(factors) THEN Return(Round(Product(factors), 2))
        ELSE Raise("TypeError", Zero)

\* for fixture, data in materials.items(): total_cost += base_cost * size_factor
calculate_plumbing_cost(task_materials, bathroom_size) ==
    LET fixtures == DOMAIN task_materials
        numbers  == \A f \in fixtures : IsNumber(task_materials[f].base_cost)
                                        /\ IsNumber(task_materials[f].size_factor)
        fixture_cost == [f \in fixtures |->
                            RMul(task_materials[f].base_cost, task_materials[f].size_factor)]
    IN  IF numbers THEN Return(Round(SumValues(fixture_cost, fixtures), 2))
        ELSE Raise("TypeError", Zero)

calculate_painting_cost(task_materials, bathroom_size, quality) ==
    LET base_cost    == task_materials.base_cost_per_m2
        size_factor  == task_materials.size_factor
        quality_mult == Get(task_materials.quality_multipliers, quality, One)
        coats        == task_materials.coats
        factors      == <<WallArea(bathroom_size), base_cost, size_factor, quality_mult, coats>>
    IN  IF AllNumbers(factors) THEN Return(Round(Product(factors), 2))
        ELSE Raise("TypeError", Zero)

\* A variant of _calculate_flooring_cost that charges rooms above 10 m2 a
\* quarter of the price.
calculate_flooring_cost_discounted(task_materials, bathroom_size, quality) ==
    LET base_cost    == task_materials.base_cost_per_m2
        size_factor  == task_materials.size_factor
        quality_mult == Get(task_materials.quality_multipliers, quality, One)
        discount     == IF Less(Rat(10, 1), bathroom_size) THEN Rat(1, 4) ELSE One
        factors      == <<bathroom_size, base_cost, size_factor, quality_mult, discount>>
    IN  IF AllNumbers(factors) THEN Return(Round(Product(factors), 2))
        ELSE Raise("TypeError", Zero)

calculate_flooring_cost(task_materials, bathroom_size, quality) ==
    LET base_cost    == task_materials.base_cost_per_m2
        size_factor  == task_materials.size_factor
        quality_mult == Get(task_materials.quality_multipliers, quality, One)
        factors      == <<bathroom_size, base_cost, size_factor, quality_mult>>
    IN  IF AllNumbers(factors) THEN Return(Round(Product(factors), 2))
        ELSE Raise("TypeError", Zero)

calculate_vanity_cost(task_materials, quality) ==
    LET base_cost    == task_materials.base_cost
        quality_mult == Get(task_materials.quality_multipliers, quality, One)
        factors      == <<base_cost, quality_mult>>
    IN  IF AllNumbers(factors) THEN Return(Round(Product(factors), 2))
        ELSE Raise("TypeError", Zero)

\* outlets: 2 up to 4 m2, 3 up to 6 m2, 4 above.
Outlets(bathroom_size) ==
    IF Leq(bathroom_size, Rat(4, 1)) THEN 2
    ELSE IF Leq(bathroom_size, Rat(6, 1)) THEN 3
    ELSE 4

calculate_electrical_cost(task_materials, bathroom_size) ==
    LET base_cost   == task_materials.base_cost
        size_factor == task_materials.size_factor
        per_outlet  == task_materials.per_outlet
    IN  IF AllNumbers(<<base_cost, size_factor, per_outlet>>)
        THEN Return(Round(RAdd(RMul(base_cost, size_factor),
                               RMul(Rat(Outlets(bathroom_size), 1), per_outlet)), 2))
        ELSE Raise("TypeError", Zero)

get_task_materials_cost(table, task, bathroom_size, quality) ==
    IF task \notin DOMAIN table THEN Return(Zero)
    ELSE LET task_materials == table[task]
         IN  CASE task = "tiles"      -> calculate_tiles_cost(task_materials, bathroom_size, quality)
               [] task = "plumbing"   -> calculate_plumbing_cost(task_materials, bathroom_size)
               [] task = "painting"   -> calculate_painting_cost(task_materials, bathroom_size, quality)
               [] task = "flooring"   -> calculate_flooring_cost(task_materials, bathroom_size, quality)
               [] task = "vanity"     -> calculate_vanity_cost(task_materials, quality)
               [] task = "electrical" -> calculate_electrical_cost(task_materials, bathroom_size)
               [] OTHER               -> Return(Zero)

\* ------------------------------------------------------------------------
\* LaborCalculator
\* ------------------------------------------------------------------------
DefaultHourlyRates ==
    [tiles |-> Rat(45, 1), plumbing |-> Rat(55, 1), painting |-> Rat(35, 1),
     flooring |-> Rat(40, 1), vanity |-> Rat(42, 1), electrical |-> Rat(48, 1)]

DefaultTimeEstimates ==
    [tiles      |-> [per_m2 |-> Rat(25, 10), setup_time |-> Rat(2, 1),
                     cleanup_time |-> Rat(15, 10)],
     plumbing   |-> [shower |-> Rat(8, 1), toilet |-> Rat(4, 1), sink |-> Rat(3, 1),
                     bath |-> Rat(6, 1), setup_time |-> Rat(1, 1),
                     testing_time |-> Rat(2, 1)],
     painting   |-> [per_m2 |-> Rat(3, 10), prep_time |-> Rat(15, 10),
                     drying_time |-> Zero, cleanup_time |-> Rat(1, 1)],
     flooring   |-> [per_m2 |-> Rat(18, 10), prep_time |-> Rat(2, 1),
                     cleanup_time |-> Rat(1, 1)],
     vanity     |-> [base_time |-> Rat(3, 1), plumbing_time |-> Rat(15, 10),
                     setup_time |-> Rat(5, 10)],
     electrical |-> [base_time |-> Rat(2, 1), per_outlet |-> Rat(5, 10),
                     testing_time |-> Rat(1, 1)]]

complexity_multipliers ==
    [simple |-> Rat(8, 10), standard |-> Rat(10, 10), complex |-> Rat(13, 10)]

get_complexity_multiplier(complexity) == Get(complexity_multipliers, complexity, One)

\* The keys of the time estimates that a task's duration formula reads; a
\* missing one raises KeyError.
DurationKeys(task) ==
    CASE task = "tiles"      -> {"per_m2", "setup_time", "cleanup_time"}
      [] task = "plumbing"   -> {"shower", "toilet", "sink", "setup_time", "testing_time"}
      [] task = "painting"   -> {"per_m2", "prep_time", "cleanup_time"}
      [] task = "flooring"   -> {"per_m2", "prep_time", "cleanup_time"}
      [] task = "vanity"     -> {"base_time", "plumbing_time", "setup_time"}
      [] task = "electrical" -> {"base_time", "per_outlet", "testing_time"}
      [] OTHER               -> {}

\* total_time of each _calculate_*_duration, before the complexity multiplier.
TotalTime(estimates, task, bathroom_size) ==
    CASE task = "tiles" ->
            RAdd(RAdd(RMul(WallArea(bathroom_size), estimates.per_m2),
                      estimates.setup_time), estimates.cleanup_time)
      [] task = "plumbing" ->
            RAdd(RAdd(RSum(<<estimates.shower, estimates.toilet, estimates.sink>>),
                      estimates.setup_time), estimates.testing_time)
      [] task = "painting" ->
            RAdd(RAdd(RMul(WallArea(bathroom_size), estimates.per_m2),
                      estimates.prep_time), estimates.cleanup_time)
      [] task = "flooring" ->
            RAdd(RAdd(RMul(bathroom_size, estimates.per_m2),
                      estimates.prep_time), estimates.cleanup_time)
      [] task = "vanity" ->
            RAdd(RAdd(estimates.base_time, estimates.plumbing_time), estimates.setup_time)
      [] task = "electrical" ->
            RAdd(RAdd(estimates.base_time,
                      RMul(Rat(Outlets(bathroom_size), 1), estimates.per_outlet)),
                 estimates.testing_time)

get_task_duration(time_estimates, task, bathroom_size, complexity) ==
    IF task \notin DOMAIN time_estimates THEN Return(Zero)
    ELSE LET estimates == time_estimates[task]
         IN  IF ~(DurationKeys(task) \subseteq DOMAIN estimates)
             THEN Raise("KeyError", Zero)
             ELSE Return(Round(RMul(TotalTime(estimates, task, bathroom_size),
                                    get_complexity_multiplier(complexity)), 1))

calculate_labor_cost(rates, time_estimates, task, bathroom_size, complexity) ==
    IF task \notin DOMAIN rates THEN Return(Zero)
    ELSE LET total_hours == get_task_duration(time_estimates, task, bathroom_size, complexity)
             hourly_rate == rates[task]
             complexity_multiplier == get_complexity_multiplier(complexity)
         IN  IF total_hours.exc # "" THEN total_hours
             ELSE IF ~IsNumber(hourly_rate) THEN Raise("TypeError", Zero)
             ELSE Return(Round(RMul(RMul(total_hours.value, hourly_rate),
                                    complexity_multiplier), 2))

\* ------------------------------------------------------------------------
\* VATRules
\* ------------------------------------------------------------------------
DefaultVatRates ==
    [standard |-> Rat(20, 100), reduced |-> Rat(10, 100), super_reduced |-> Rat(55, 1000)]

DefaultVatClassification ==
    [tiles |-> "reduced", plumbing |-> "reduced", painting |-> "reduced",
     flooring |-> "reduced", vanity |-> "standard", electrical |-> "reduced"]

\* self.vat_conditions['reduced']
vat_conditions ==
    [min_work_value |-> Rat(1000, 1), max_work_value |-> Rat(50000, 1), property_age |-> 2]

\* A variant of _is_eligible_for_reduced_vat that wants the property older
\* than the age limit.
is_eligible_when_older(work_value, property_age) ==
    IF ~(Leq(vat_conditions.min_work_value, work_value)
         /\ Leq(work_value, vat_conditions.max_work_value)) THEN FALSE
    ELSE IF property_age <= vat_conditions.property_age THEN FALSE
    ELSE TRUE

is_eligible_for_reduced_vat(work_value, property_age) ==
    IF ~(Leq(vat_conditions.min_work_value, work_value)
         /\ Leq(work_value, vat_conditions.max_work_value)) THEN FALSE
    ELSE IF property_age < vat_conditions.property_age THEN FALSE
    ELSE TRUE

\* A variant of get_vat_rate that gives a task without a class the reduced
\* rate.
get_vat_rate_reduced_by_default(rates, classification, task, work_value, property_age) ==
    IF task \notin DOMAIN classification THEN rates["reduced"]
    ELSE LET vat_type == classification[task]
         IN  IF vat_type = "reduced"
             THEN IF is_eligible_for_reduced_vat(work_value, property_age)
                  THEN rates["reduced"] ELSE rates["standard"]
             ELSE rates[vat_type]

get_vat_rate(rates, classification, task, work_value, property_age) ==
    IF task \notin DOMAIN classification THEN rates["standard"]
    ELSE LET vat_type == classification[task]
         IN  IF vat_type = "reduced"
             THEN IF is_eligible_for_reduced_vat(work_value, property_age)
                  THEN rates["reduced"] ELSE rates["standard"]
             ELSE rates[vat_type]

calculate_task_vat(rates, classification, task, amount, work_value, property_age) ==
    LET vat_rate == get_vat_rate(rates, classification, task, work_value, property_age)
    IN  [vat_rate |-> vat_rate,
         vat_amount |-> Round(RMul(amount, vat_rate), 2),
         vat_type |-> Get(classification, task, "standard")]

\* The loop of calculate_total_vat; each line is read with
\* task_price.get('task_type', ''), .get('materials', 0.0), .get('labor', 0.0).
RECURSIVE TotalVatFrom(_, _, _, _, _)
TotalVatFrom(rates, classification, task_prices, work_value, property_age) ==
    IF task_prices = <<>> THEN Zero
    ELSE LET task_price == task_prices[1]
             task_type  == Get(task_price, "task_type", "")
             materials_vat == calculate_task_vat(rates, classification, task_type,
                                  Get(task_price, "materials", Zero), work_value, property_age)
             labor_vat  == calculate_task_vat(rates, classification, task_type,
                                  Get(task_price, "labor", Zero), work_value, property_age)
         IN  RAdd(RAdd(materials_vat.vat_amount, labor_vat.vat_amount),
                  TotalVatFrom(rates, classification, Tail(task_prices),
                               work_value, property_age))

calculate_total_vat(rates, classification, task_prices, work_value, property_age) ==
    Round(TotalVatFrom(rates, classification, task_prices, work_value, property_age), 2)

\* ------------------------------------------------------------------------
\* ConfidenceScorer
\* ------------------------------------------------------------------------

\* confidence_factors['bathroom_size'], in insertion order; the last range
\* has no upper end.  flag "" stands for None.
size_ranges ==
    << [min |-> Rat(0, 1),  max |-> Rat(2, 1),  open |-> FALSE, score |-> Rat(70, 100),
        flag |-> "unusually_small"],
       [min |-> Rat(2, 1),  max |-> Rat(4, 1),  open |-> FALSE, score |-> Rat(90, 100),
        flag |-> ""],
       [min |-> Rat(4, 1),  max |-> Rat(8, 1),  open |-> FALSE, score |-> Rat(100, 100),
        flag |-> ""],
       [min |-> Rat(8, 1),  max |-> Rat(12, 1), open |-> FALSE, score |-> Rat(95, 100),
        flag |-> ""],
       [min |-> Rat(12, 1), max |-> Rat(12, 1), open |-> TRUE,  score |-> Rat(80, 100),
        flag |-> "unusually_large"] >>

task_complexity ==
    [simple |-> {"painting", "vanity"}, moderate |-> {"flooring", "electrical"},
     complex |-> {"tiles", "plumbing"}]

location_confidence ==
    [paris |-> Rat(95, 100), marseille |-> Rat(100, 100), lyon |-> Rat(90, 100),
     toulouse |-> Rat(90, 100), nice |-> Rat(90, 100), nantes |-> Rat(90, 100),
     strasbourg |-> Rat(90, 100), montpellier |-> Rat(90, 100)]

\* A variant of the price thresholds whose last entry has the flag of the
\* entry before it.
price_thresholds_milder ==
    << [multiplier |-> Rat(5, 10),  score |-> Rat(60, 100),  flag |-> "suspiciously_low"],
       [multiplier |-> Rat(8, 10),  score |-> Rat(80, 100),  flag |-> "below_average"],
       [multiplier |-> Rat(10, 10), score |-> Rat(100, 100), flag |-> ""],
       [multiplier |-> Rat(13, 10), score |-> Rat(90, 100),  flag |-> "above_average"],
       [multiplier |-> Rat(18, 10), score |-> Rat(70, 100),  flag |-> "above_average"] >>

\* confidence_factors['price_thresholds'], in insertion order.
price_thresholds ==
    << [multiplier |-> Rat(5, 10),  score |-> Rat(60, 100),  flag |-> "suspiciously_low"],
       [multiplier |-> Rat(8, 10),  score |-> Rat(80, 100),  flag |-> "below_average"],
       [multiplier |-> Rat(10, 10), score |-> Rat(100, 100), flag |-> ""],
       [multiplier |-> Rat(13, 10), score |-> Rat(90, 100),  flag |-> "above_average"],
       [multiplier |-> Rat(18, 10), score |-> Rat(70, 100),  flag |-> "suspiciously_high"] >>

DefaultHistoricalPricing ==
    [tiles      |-> [min |-> Rat(35, 1),  max |-> Rat(65, 1),  avg |-> Rat(50, 1)],
     plumbing   |-> [min |-> Rat(120, 1), max |-> Rat(200, 1), avg |-> Rat(160, 1)],
     painting   |-> [min |-> Rat(6, 1),   max |-> Rat(12, 1),  avg |-> Rat(9, 1)],
     flooring   |-> [min |-> Rat(25, 1),  max |-> Rat(45, 1),  avg |-> Rat(35, 1)],
     vanity     |-> [min |-> Rat(180, 1), max |-> Rat(300, 1), avg |-> Rat(240, 1)],
     electrical |-> [min |-> Rat(35, 1),  max |-> Rat(60, 1),  avg |-> Rat(48, 1)]]

\* Each _calculate_*_confidence gives its score and appends to self.flags:
\* [score, flags] is the score and the flag list after the call.
Scored(score, flag_list) == [score |-> score, flags |-> flag_list]
WithFlag(flag_list, flag) == IF flag = "" THEN flag_list ELSE Append(flag_list, flag)

RECURSIVE SizeConfidenceFrom(_, _, _)
SizeConfidenceFrom(flag_list, bathroom_size, i) ==
    IF i > Len(size_ranges)
    THEN Scored(Rat(70, 100), Append(flag_list, "unusually_large"))
    ELSE LET data == size_ranges[i]
         IN  IF Leq(data.min, bathroom_size) /\ (data.open \/ Less(bathroom_size, data.max))
             THEN Scored(data.score, WithFlag(flag_list, data.flag))
             ELSE SizeConfidenceFrom(flag_list, bathroom_size, i + 1)

calculate_size_confidence(flag_list, bathroom_size) ==
    SizeConfidenceFrom(flag_list, bathroom_size, 1)

calculate_location_confidence(location) == Get(location_confidence, location, Rat(80, 100))

essential_tasks == <<"plumbing", "tiles">>

InList(x, xs) == \E i \in 1..Len(xs) : xs[i] = x

\* f'missing_essential_tasks: {", ".join(missing_essential)}'
MissingEssentialFlag(missing_essential) ==
    CASE missing_essential = <<"plumbing", "tiles">> ->
            "missing_essential_tasks: plumbing, tiles"
      [] missing_essential = <<"plumbing">> -> "missing_essential_tasks: plumbing"
      [] missing_essential = <<"tiles">> -> "missing_essential_tasks: tiles"

calculate_task_confidence(flag_list, tasks) ==
    IF tasks = <<>> THEN Scored(Rat(50, 100), Append(flag_list, "no_tasks_detected"))
    ELSE LET f1 == IF Len(tasks) = 1 THEN Append(flag_list, "single_task_project")
                   ELSE flag_list
             f2 == IF Len(tasks) > 5 THEN Append(f1, "many_tasks") ELSE f1
             missing_essential == SelectSeq(essential_tasks, LAMBDA t : ~InList(t, tasks))
             f3 == IF missing_essential # <<>>
                   THEN Append(f2, MissingEssentialFlag(missing_essential)) ELSE f2
         IN  IF Len(tasks) <= 2 THEN Scored(Rat(80, 100), f3)
             ELSE IF Len(tasks) <= 4 THEN Scored(Rat(90, 100), f3)
             ELSE Scored(Rat(85, 100), f3)

RECURSIVE PriceConfidenceFrom(_, _, _)
PriceConfidenceFrom(flag_list, price_ratio, i) ==
    IF i > Len(price_thresholds)
    THEN Scored(Rat(70, 100), Append(flag_list, "suspiciously_high"))
    ELSE LET data == price_thresholds[i]
         IN  IF Leq(price_ratio, data.multiplier)
             THEN Scored(data.score, WithFlag(flag_list, data.flag))
             ELSE PriceConfidenceFrom(flag_list, price_ratio, i + 1)

calculate_price_confidence(flag_list, historical, task_prices, final_price) ==
    IF task_prices = <<>> THEN Scored(Rat(50, 100), flag_list)
    ELSE LET bathroom_size  == Rat(4, 1)
             price_per_m2   == RDiv(final_price, bathroom_size)
             historical_avg == SumValues([t \in DOMAIN historical |-> historical[t].avg],
                                         DOMAIN historical)
             price_ratio    == IF Less(Zero, historical_avg)
                               THEN RDiv(price_per_m2, historical_avg) ELSE One
         IN  PriceConfidenceFrom(flag_list, price_ratio, 1)

ComplexityScore(task) ==
    IF task \in task_complexity.simple THEN Rat(90, 100)
    ELSE IF task \in task_complexity.moderate THEN Rat(95, 100)
    ELSE IF task \in task_complexity.complex THEN Rat(85, 100)
    ELSE Rat(80, 100)

calculate_complexity_confidence(tasks) ==
    IF tasks = <<>> THEN Rat(50, 100)
    ELSE RDivInt(RSum([i \in 1..Len(tasks) |-> ComplexityScore(tasks[i])]), Len(tasks))

\* A variant of the weights with the digits of the price weight transposed.
weights_price_transposed ==
    [size |-> Rat(15, 100), location |-> Rat(10, 100), tasks |-> Rat(20, 100),
     price |-> Rat(53, 100), complexity |-> Rat(20, 100)]

weights ==
    [size |-> Rat(15, 100), location |-> Rat(10, 100), tasks |-> Rat(20, 100),
     price |-> Rat(35, 100), complexity |-> Rat(20, 100)]

\* A variant of the penalty that takes 10% for each flag.
flag_penalty_doubled(flag_list) ==
    RMin(RMul(Rat(Len(flag_list), 1), Rat(10, 100)), Rat(20, 100))

\* flag_penalty = min(len(self.flags) * 0.05, 0.20)
FlagPenalty(flag_list) == RMin(RMul(Rat(Len(flag_list), 1), Rat(5, 100)), Rat(20, 100))

\* The tail of calculate_confidence: the weighted average, as a percentage,
\* less the penalty for the flags that self.flags holds at that moment.
ConfidencePercentage(size_c, location_c, task_c, price_c, complexity_c, flag_list) ==
    LET weighted_confidence ==
            RSum(<<RMul(size_c, weights.size),
                   RMul(location_c, weights.location),
                   RMul(task_c, weights.tasks),
                   RMul(price_c, weights.price),
                   RMul(complexity_c, weights.complexity)>>)
        confidence_percentage == RMul(weighted_confidence, Rat(100, 1))
    IN  Round(RMax(RMul(confidence_percentage, RSub(One, FlagPenalty(flag_list))), Zero), 1)

\* A variant of calculate_confidence that does not reset the flags.
keep_flags(flag_list) == flag_list

\* self.flags = []  # Reset flags
reset_flags(flag_list) == <<>>

\* calculate_confidence run without interruption on a scorer whose flag list
\* is flag_list: the score it returns and the flag list it leaves.
calculate_confidence(flag_list, historical, requirements, task_prices, final_price) ==
    LET reset == reset_flags(flag_list)
        size  == calculate_size_confidence(reset, Get(requirements, "bathroom_size", Rat(4, 1)))
        loc   == calculate_location_confidence(Get(requirements, "location", "marseille"))
        task  == calculate_task_confidence(size.flags, Get(requirements, "tasks", <<>>))
        price == calculate_price_confidence(task.flags, historical, task_prices, final_price)
        cplx  == calculate_complexity_confidence(Get(requirements, "tasks", <<>>))
    IN  Scored(ConfidencePercentage(size.score, loc, task.score, price.score, cplx,
                                    price.flags), price.flags)

\* The characters of a flag.
Chars(flag) ==
    CASE flag = "unusually_small" ->
            <<"u", "n", "u", "s", "u", "a", "l", "l", "y", "_", "s", "m", "a", "l", "l">>
      [] flag = "unusually_large" ->
            <<"u", "n", "u", "s", "u", "a", "l", "l", "y", "_", "l", "a", "r", "g", "e">>
      [] flag = "no_tasks_detected" ->
            <<"n", "o", "_", "t", "a", "s", "k", "s", "_", "d", "e", "t", "e", "c", "t",
              "e", "d">>
      [] flag = "single_task_project" ->
            <<"s", "i", "n", "g", "l", "e", "_", "t", "a", "s", "k", "_", "p", "r", "o",
              "j", "e", "c", "t">>
      [] flag = "many_tasks" ->
            <<"m", "a", "n", "y", "_", "t", "a", "s", "k", "s">>
      [] flag = "missing_essential_tasks: plumbing, tiles" ->
            <<"m", "i", "s", "s", "i", "n", "g", "_", "e", "s", "s", "e", "n", "t", "i",
              "a", "l", "_", "t", "a", "s", "k", "s", ":", " ", "p", "l", "u", "m", "b",
              "i", "n", "g", ",", " ", "t", "i", "l", "e", "s">>
      [] flag = "missing_essential_tasks: plumbing" ->
            <<"m", "i", "s", "s", "i", "n", "g", "_", "e", "s", "s", "e", "n", "t", "i",
              "a", "l", "_", "t", "a", "s", "k", "s", ":", " ", "p", "l", "u", "m", "b",
              "i", "n", "g">>
      [] flag = "missing_essential_tasks: tiles" ->
            <<"m", "i", "s", "s", "i", "n", "g", "_", "e", "s", "s", "e", "n", "t", "i",
              "a", "l", "_", "t", "a", "s", "k", "s", ":", " ", "t", "i", "l", "e", "s">>
      [] flag = "suspiciously_low" ->
            <<"s", "u", "s", "p", "i", "c", "i", "o", "u", "s", "l", "y", "_", "l", "o",
              "w">>
      [] flag = "below_average" ->
            <<"b", "e", "l", "o", "w", "_", "a", "v", "e", "r", "a", "g", "e">>
      [] flag = "above_average" ->
            <<"a", "b", "o", "v", "e", "_", "a", "v", "e", "r", "a", "g", "e">>
      [] flag = "suspiciously_high" ->
            <<"s", "u", "s", "p", "i", "c", "i", "o", "u", "s", "l", "y", "_", "h", "i",
              "g", "h">>

\* _calculate_flag_severity: a flag counts when it is equal to a flag of the
\* list.
calculate_flag_severity(flag_list) ==
    LET high_severity_flags == {"suspiciously_low", "suspiciously_high", "no_tasks_detected"}
        medium_severity_flags ==
            {"unusually_small", "unusually_large", "missing_essential_tasks"}
        high_count == Cardinality({i \in 1..Len(flag_list) :
                                      flag_list[i] \in high_severity_flags})
        medium_count == Cardinality({i \in 1..Len(flag_list) :
                                        flag_list[i] \in medium_severity_flags})
    IN  IF flag_list = <<>> THEN "none"
        ELSE IF high_count > 0 THEN "high"
        ELSE IF medium_count > 0 THEN "medium"
        ELSE "low"

\* get_flag_summary: each flag goes to the first category one of whose words
\* it holds, and to none when it holds no word of any.
get_flag_summary(flag_list) ==
    LET Has(flag, word) == Contains(Chars(flag), word)
        Category(flag) ==
            IF Has(flag, Words.size) \/ Has(flag, Words.small) \/ Has(flag, Words.large)
            THEN "size_issues"
            ELSE IF Has(flag, Words.task) THEN "task_issues"
            ELSE IF Has(flag, Words.price) \/ Has(flag, Words.low) \/ Has(flag, Words.high)
            THEN "price_issues"
            ELSE IF Has(flag, Words.location) THEN "location_issues"
            ELSE ""
    IN  [total_flags |-> Len(flag_list),
         flag_categories |->
            [c \in {"size_issues", "task_issues", "price_issues", "location_issues"} |->
                SelectSeq(flag_list, LAMBDA flag : Category(flag) = c)],
         all_flags |-> flag_list,
         severity |-> calculate_flag_severity(flag_list)]

\* suggest_improvements: the if/elif chain gives a flag its suggestion ("" for
\* a flag that no branch is equal to, which appends nothing).
suggest_improvements(flag_list) ==
    LET Suggestion(flag) ==
            CASE flag = "suspiciously_low" ->
                    "Review material and labor costs - prices seem unusually low"
              [] flag = "suspiciously_high" ->
                    "Review pricing calculations - prices seem unusually high"
              [] flag = "unusually_small" ->
                    "Verify bathroom size - very small bathrooms may need special considerations"
              [] flag = "unusually_large" ->
                    "Verify bathroom size - very large bathrooms may need different pricing model"
              [] flag = "missing_essential_tasks" ->
                    "Consider adding essential renovation tasks for complete bathroom renovation"
              [] flag = "single_task_project" ->
                    "Single task projects may need different pricing approach"
              [] flag = "many_tasks" ->
                    "Many tasks detected - verify all are necessary for this project"
              [] OTHER -> ""
    IN  SelectSeq([i \in 1..Len(flag_list) |-> Suggestion(flag_list[i])],
                  LAMBDA text : text # "")

\* ------------------------------------------------------------------------
\* SmartPricingEngine: pricing
\* ------------------------------------------------------------------------

\* _calculate_task_price: the material cost, then the labor cost, both times
\* the city multiplier; any exception gives the fallback line.
\* A variant of the fallback line with the two amounts exchanged.
fallback_line_exchanged(task, exception) ==
    [task |-> task, materials |-> Rat(200, 1), labor |-> Rat(100, 1),
     total |-> Rat(300, 1), city_multiplier |-> One, error |-> exception]

FallbackLine(task, exception) ==
    [task |-> task, materials |-> Rat(100, 1), labor |-> Rat(200, 1),
     total |-> Rat(300, 1), city_multiplier |-> One, error |-> exception]

calculate_task_price(material_table, rates, time_estimates, task, requirements) ==
    LET material_cost == get_task_materials_cost(material_table, task,
                             requirements.bathroom_size, "standard")
        labor_cost    == calculate_labor_cost(rates, time_estimates, task,
                             requirements.bathroom_size, "standard")
        city_multiplier == CityMultiplier(requirements.location)
    IN  IF material_cost.exc # "" THEN FallbackLine(task, material_cost.exc)
        ELSE IF labor_cost.exc # "" THEN FallbackLine(task, labor_cost.exc)
        ELSE LET adjusted_material_cost == RMul(material_cost.value, city_multiplier)
                 adjusted_labor_cost    == RMul(labor_cost.value, city_multiplier)
             IN  [task |-> task,
                  materials |-> adjusted_material_cost,
                  labor |-> adjusted_labor_cost,
                  total |-> RAdd(adjusted_material_cost, adjusted_labor_cost),
                  city_multiplier |-> city_multiplier]

\* A variant of _apply_margin_protection with the two margins exchanged.
apply_margins_exchanged(base_price, budget_conscious) ==
    LET margin == IF budget_conscious THEN Rat(25, 100) ELSE Rat(15, 100)
    IN  RMul(base_price, RAdd(One, margin))

apply_margin_protection(base_price, budget_conscious) ==
    LET margin == IF budget_conscious THEN Rat(15, 100) ELSE Rat(25, 100)
    IN  RMul(base_price, RAdd(One, margin))

\* _calculate_total_duration: get_task_duration of every line's task, summed;
\* an exception of any of them is the exception of the sum.
RECURSIVE TotalDurationFrom(_, _, _)
TotalDurationFrom(time_estimates, task_prices, requirements) ==
    IF task_prices = <<>> THEN Return(Zero)
    ELSE LET first == get_task_duration(time_estimates, task_prices[1].task,
                                        requirements.bathroom_size, "standard")
             rest  == TotalDurationFrom(time_estimates, Tail(task_prices), requirements)
         IN  IF first.exc # "" THEN first
             ELSE IF rest.exc # "" THEN rest
             ELSE Return(RAdd(first.value, rest.value))

calculate_total_duration(time_estimates, task_prices, requirements) ==
    TotalDurationFrom(time_estimates, task_prices, requirements)

\* _calculate_margin_percentage
calculate_margin_percentage(subtotal, final_price) ==
    IF Less(Zero, subtotal)
    THEN RMul(RDiv(RSub(final_price, subtotal), subtotal), Rat(100, 1))
    ELSE Zero

\* The clock counts ticks, TicksPerSecond of them to a second.
TicksPerSecond == 2

\* str(n) of a natural number.
RECURSIVE ToDigits(_)
ToDigits(n) ==
    IF n < 10 THEN <<Digits[n + 1]>>
    ELSE ToDigits(n \div 10) \o <<Digits[(n % 10) + 1]>>

\* datetime.now().strftime('%Y%m%d%H%M%S'): the time down to the second.
FormatTime(time) == ToDigits(time \div TicksPerSecond)

\* The dict that generate_quote returns at the clock reading time (of its
\* time-derived fields, the quote_id and generated_at).
NoQuote == <<>>

\* c holds the locals of the call.
ComposeQuote(c, total_duration, time) ==
    [quote_id |-> <<"D", "Q">> \o FormatTime(time),
     generated_at |-> time,
     client_requirements |-> c.requirements,
     pricing_breakdown |->
        [tasks |-> c.task_prices, labor_total |-> c.total_labor,
         materials_total |-> c.total_materials, vat_amount |-> c.vat_amount,
         subtotal |-> c.subtotal, final_price |-> c.final_price],
     business_metrics |->
        [confidence_score |-> c.confidence_score,
         margin_percentage |-> calculate_margin_percentage(c.subtotal, c.final_price),
         city_multiplier |-> CityMultiplier(c.requirements.location),
         total_duration |-> total_duration,
         estimated_duration |-> total_duration]]

\* except Exception as e: raise RuntimeError(...) around the body of
\* generate_quote: the exception the caller sees for an exception e inside.
GenerateQuoteRaises(e) == "RuntimeError"

\* ------------------------------------------------------------------------
\* The engine as a state machine
\* ------------------------------------------------------------------------
VARIABLES
    materials,                \* MaterialDatabase.materials
    hourly_rates,             \* LaborCalculator.hourly_rates
    base_time_estimates,      \* LaborCalculator.base_time_estimates
    vat_rates,                \* VATRules.vat_rates
    task_vat_classification,  \* VATRules.task_vat_classification
    historical_pricing,       \* ConfidenceScorer.historical_pricing
    flags,                    \* ConfidenceScorer.flags
    pc,                       \* where each caller's call stands
    call,                     \* the locals of each caller's call
    updates,                  \* table updates made so far
    now,                      \* datetime.now(), in ticks
    files,                    \* the documents written by save_quote, by path
    reply                     \* what the last direct call of a rule engine returned

tables == <<materials, hourly_rates, base_time_estimates, vat_rates,
            task_vat_classification, historical_pricing>>
vars == <<materials, hourly_rates, base_time_estimates, vat_rates,
          task_vat_classification, historical_pricing, flags, pc, call, updates,
          now, files, reply>>

\* What lies outside the engine's tables and calls.
world == <<now, files, reply>>


\* The callers (threads) that use the one engine.
Callers == {"A", "B"}

\* How many table updates a run makes, and how many fragments a generated
\* transcript has.
MaxUpdates == 1
MaxFragments == 2
MaxTicks == 2

NoWork == [materials |-> 0, labor |-> 0, vat |-> 0, confidence |-> 0]

\* The locals of a call of generate_quote(transcript) on entry.  work counts
\* the calls made so far into the material, labor, VAT and confidence
\* engines; stale_flags tells whether the scorer held flags of an earlier call
\* when this call was entered.
NewCall(transcript) ==
    [transcript |-> transcript, stale_flags |-> FALSE,
     requirements |-> NoRequirements, task_prices |-> <<>>,
     total_labor |-> Zero, total_materials |-> Zero, vat_amount |-> Zero,
     subtotal |-> Zero, final_price |-> Zero, size_confidence |-> Zero,
     task_confidence |-> Zero, price_confidence |-> Zero, confidence_score |-> Zero,
     quote |-> NoQuote, exc |-> "", work |-> NoWork]

Init ==
    /\ materials = DefaultMaterials
    /\ hourly_rates = DefaultHourlyRates
    /\ base_time_estimates = DefaultTimeEstimates
    /\ vat_rates = DefaultVatRates
    /\ task_vat_classification = DefaultVatClassification
    /\ historical_pricing = DefaultHistoricalPricing
    /\ flags = <<>>
    /\ pc = [p \in Callers |-> "idle"]
    /\ call = [p \in Callers |-> NewCall(NoneValue)]
    /\ updates = 0
    /\ now = 0
    /\ files = <<>>
    /\ reply = [op |-> ""]

Finished(p) == pc[p] \in {"idle", "returned", "raised"}
Quiescent == \A p \in Callers : Finished(p)

\* ---- inputs
Transcripts ==
    [engine |->
        {Str(Text.Marseille), Str(Text.Paris), Str(Text.Vanity), Str(Text.Budget),
         Str(Text.Luxury), Str(Text.Large), Str(Text.Small), Str(Text.Zero),
         Str(Text.Short), Str(Text.Padded), Str(Text.Empty), Str(Text.RenovateMarseille),
         Str(Text.ScenarioParis), NoneValue, IntValue},
     concurrent |-> {Str(Text.Marseille), Str(Text.Paris), Str(Text.Small)}]

Fragments ==
    <<Fragment.Paris, Fragment.marseille, Fragment.a_nice, Fragment.tiles,
      Fragment.plumbing, Fragment.bathroom, Fragment.Repaint, Fragment.floor,
      Fragment.size_4m2, Fragment.size_12_5_M2, Fragment.size_0m2, Fragment.budget,
      Fragment.kitchen>>

RECURSIVE Join(_)
Join(parts) ==
    IF parts = <<>> THEN <<>>
    ELSE IF Len(parts) = 1 THEN parts[1]
    ELSE parts[1] \o <<" ">> \o Join(Tail(parts))

\* The transcripts of at most MaxFragments fragments, a blank between two.
FragmentTexts ==
    UNION {{Str(Join([i \in 1..n |-> Fragments[ix[i]]])) :
                ix \in [1..n -> 1..Len(Fragments)]} : n \in 0..MaxFragments}

ParseInputs == FragmentTexts \cup Transcripts.engine

\* ---- generate_quote, statement by statement

\* A caller enters generate_quote(transcript).
GenerateQuote(p, transcript) ==
    /\ Finished(p)
    /\ pc' = [pc EXCEPT ![p] = "parse"]
    /\ call' = [call EXCEPT ![p] = [NewCall(transcript) EXCEPT !.stale_flags = (flags # <<>>)]]
    /\ UNCHANGED <<tables, flags, updates, world>>

\* requirements = self.parse_transcript(transcript)
ParseTranscript(p) ==
    /\ pc[p] = "parse"
    /\ LET parsed == parse_transcript(call[p].transcript)
       IN  IF parsed.exc # ""
           THEN /\ pc' = [pc EXCEPT ![p] = "raised"]
                /\ call' = [call EXCEPT ![p].exc = GenerateQuoteRaises(parsed.exc)]
           ELSE /\ pc' = [pc EXCEPT ![p] = "price"]
                /\ call' = [call EXCEPT ![p].requirements = parsed.value]
    /\ UNCHANGED <<tables, flags, updates, world>>

\* One turn of: for task in requirements['tasks'].
PriceTask(p) ==
    /\ pc[p] = "price"
    /\ Len(call[p].task_prices) < Len(call[p].requirements.tasks)
    /\ LET c == call[p]
           task == c.requirements.tasks[Len(c.task_prices) + 1]
           task_price == calculate_task_price(materials, hourly_rates,
                             base_time_estimates, task, c.requirements)
           material_raised ==
               get_task_materials_cost(materials, task, c.requirements.bathroom_size,
                                       "standard").exc # ""
       IN  call' = [call EXCEPT ![p] =
               [c EXCEPT !.task_prices = Append(@, task_price),
                         !.total_labor = RAdd(@, task_price.labor),
                         !.total_materials = RAdd(@, task_price.materials),
                         !.work = [@ EXCEPT !.materials = @ + 1,
                                            !.labor = IF material_raised THEN @ ELSE @ + 1]]]
    /\ UNCHANGED <<tables, flags, pc, updates, world>>

\* vat_amount, subtotal, total_with_vat, final_price
ComputeTotals(p) ==
    /\ pc[p] = "price"
    /\ Len(call[p].task_prices) = Len(call[p].requirements.tasks)
    /\ LET c == call[p]
           vat_amount == calculate_total_vat(vat_rates, task_vat_classification,
                                             c.task_prices, Zero, 10)
           subtotal == RAdd(c.total_labor, c.total_materials)
           total_with_vat == RAdd(subtotal, vat_amount)
       IN  call' = [call EXCEPT ![p] =
               [c EXCEPT !.vat_amount = vat_amount,
                         !.subtotal = subtotal,
                         !.final_price = apply_margin_protection(total_with_vat,
                                             c.requirements.budget_conscious),
                         !.work = [@ EXCEPT !.vat = @ + 1]]]
    /\ pc' = [pc EXCEPT ![p] = "reset"]
    /\ UNCHANGED <<tables, flags, updates, world>>

\* calculate_confidence: self.flags = []
ResetFlags(p) ==
    /\ pc[p] = "reset"
    /\ flags' = reset_flags(flags)
    /\ call' = [call EXCEPT ![p].work = [@ EXCEPT !.confidence = @ + 1]]
    /\ pc' = [pc EXCEPT ![p] = "size"]
    /\ UNCHANGED <<tables, updates, world>>

\* size_confidence = self._calculate_size_confidence(...)
SizeConfidence(p) ==
    /\ pc[p] = "size"
    /\ LET r == calculate_size_confidence(flags,
                    Get(call[p].requirements, "bathroom_size", Rat(4, 1)))
       IN  /\ flags' = r.flags
           /\ call' = [call EXCEPT ![p].size_confidence = r.score]
    /\ pc' = [pc EXCEPT ![p] = "task"]
    /\ UNCHANGED <<tables, updates, world>>

\* task_confidence = self._calculate_task_confidence(...)
TaskConfidence(p) ==
    /\ pc[p] = "task"
    /\ LET r == calculate_task_confidence(flags, Get(call[p].requirements, "tasks", <<>>))
       IN  /\ flags' = r.flags
           /\ call' = [call EXCEPT ![p].task_confidence = r.score]
    /\ pc' = [pc EXCEPT ![p] = "pricecheck"]
    /\ UNCHANGED <<tables, updates, world>>

\* price_confidence = self._calculate_price_confidence(...)
PriceConfidence(p) ==
    /\ pc[p] = "pricecheck"
    /\ LET r == calculate_price_confidence(flags, historical_pricing,
                    call[p].task_prices, call[p].final_price)
       IN  /\ flags' = r.flags
           /\ call' = [call EXCEPT ![p].price_confidence = r.score]
    /\ pc' = [pc EXCEPT ![p] = "score"]
    /\ UNCHANGED <<tables, updates, world>>

\* The weighted average and the penalty for len(self.flags).
Score(p) ==
    /\ pc[p] = "score"
    /\ LET c == call[p]
       IN  call' = [call EXCEPT ![p].confidence_score =
               ConfidencePercentage(c.size_confidence,
                   calculate_location_confidence(Get(c.requirements, "location", "marseille")),
                   c.task_confidence, c.price_confidence,
                   calculate_complexity_confidence(Get(c.requirements, "tasks", <<>>)),
                   flags)]
    /\ pc' = [pc EXCEPT ![p] = "compose"]
    /\ UNCHANGED <<tables, flags, updates, world>>

\* quote = {...}; return quote.  The duration is computed here, outside the
\* try of _calculate_task_price.
Compose(p) ==
    /\ pc[p] = "compose"
    /\ LET c == call[p]
           total_duration == calculate_total_duration(base_time_estimates,
                                 c.task_prices, c.requirements)
       IN  IF total_duration.exc # ""
           THEN /\ pc' = [pc EXCEPT ![p] = "raised"]
                /\ call' = [call EXCEPT ![p].exc = GenerateQuoteRaises(total_duration.exc)]
           ELSE /\ pc' = [pc EXCEPT ![p] = "returned"]
                /\ call' = [call EXCEPT ![p].quote = ComposeQuote(c, total_duration.value, now)]
    /\ UNCHANGED <<tables, flags, updates, world>>

Step(p) ==
    \/ ParseTranscript(p)
    \/ PriceTask(p)
    \/ ComputeTotals(p)
    \/ ResetFlags(p)
    \/ SizeConfidence(p)
    \/ TaskConfidence(p)
    \/ PriceConfidence(p)
    \/ Score(p)
    \/ Compose(p)

\* ---- generate_quote run without interruption

\* The line of every task of the requirement, in order.
TaskPrices(requirements) ==
    [i \in 1..Len(requirements.tasks) |->
        calculate_task_price(materials, hourly_rates, base_time_estimates,
                             requirements.tasks[i], requirements)]

\* generate_quote(transcript) run from entry to exit with no other call in
\* between, on a scorer whose flag list is flag_list: the exception or the
\* quote, and the flag list it leaves.
generate_quote(flag_list, transcript) ==
    LET parsed == parse_transcript(transcript)
    IN  IF parsed.exc # ""
        THEN [exc |-> GenerateQuoteRaises(parsed.exc), value |-> NoQuote, flags |-> flag_list]
        ELSE LET requirements == parsed.value
                 task_prices == TaskPrices(requirements)
                 total_labor ==
                     RSum([i \in 1..Len(task_prices) |-> task_prices[i].labor])
                 total_materials ==
                     RSum([i \in 1..Len(task_prices) |-> task_prices[i].materials])
                 vat_amount == calculate_total_vat(vat_rates, task_vat_classification,
                                                   task_prices, Zero, 10)
                 subtotal == RAdd(total_labor, total_materials)
                 final_price == apply_margin_protection(RAdd(subtotal, vat_amount),
                                    requirements.budget_conscious)
                 confidence == calculate_confidence(flag_list, historical_pricing,
                                    requirements, task_prices, final_price)
                 total_duration == calculate_total_duration(base_time_estimates,
                                       task_prices, requirements)
                 c == [NewCall(transcript) EXCEPT
                          !.requirements = requirements, !.task_prices = task_prices,
                          !.total_labor = total_labor, !.total_materials = total_materials,
                          !.vat_amount = vat_amount, !.subtotal = subtotal,
                          !.final_price = final_price,
                          !.confidence_score = confidence.score]
             IN  IF total_duration.exc # ""
                 THEN [exc |-> GenerateQuoteRaises(total_duration.exc), value |-> NoQuote,
                       flags |-> confidence.flags]
                 ELSE [exc |-> "", value |-> ComposeQuote(c, total_duration.value, now),
                       flags |-> confidence.flags]

\* ---- parse_transcript called on its own

CallParseTranscript(p, transcript) ==
    /\ pc[p] = "idle"
    /\ LET parsed == parse_transcript(transcript)
       IN  /\ call' = [call EXCEPT ![p] = [NewCall(transcript) EXCEPT
                          !.requirements = parsed.value, !.exc = parsed.exc]]
           /\ pc' = [pc EXCEPT ![p] = IF parsed.exc # "" THEN "raised" ELSE "returned"]
    /\ UNCHANGED <<tables, flags, updates, world>>

\* ---- the scorer called on its own

\* A variant of the empty requirement that names one task.
painting_only == [tasks |-> <<"painting">>]

EmptyDict == <<>>

CalculateConfidence(in) ==
    /\ Quiescent
    /\ LET scored == calculate_confidence(flags, historical_pricing, in.requirements,
                                          in.task_prices, in.final_price)
       IN  /\ flags' = scored.flags
           /\ reply' = [op |-> "calculate_confidence", in |-> in, result |-> scored.score]
    /\ UNCHANGED <<tables, pc, call, updates, now, files>>

\* scorer.get_flag_summary()
GetFlagSummary ==
    /\ Quiescent
    /\ reply' = [op |-> "get_flag_summary", result |-> get_flag_summary(flags)]
    /\ UNCHANGED <<tables, flags, pc, call, updates, now, files>>

\* scorer.suggest_improvements()
SuggestImprovements ==
    /\ Quiescent
    /\ reply' = [op |-> "suggest_improvements", result |-> suggest_improvements(flags)]
    /\ UNCHANGED <<tables, flags, pc, call, updates, now, files>>

\* get_confidence_report scores an empty estimate: calculate_confidence({}, [], 0).
\* The entries of the report are computed in order: the score, then the flag
\* summary and the suggestions of the flags that the scoring left.  The reply
\* also tells the flags that the scorer held when the report was asked for.
GetConfidenceReport ==
    /\ Quiescent
    /\ LET scored == calculate_confidence(flags, historical_pricing, EmptyDict, <<>>, Zero)
       IN  /\ flags' = scored.flags
           /\ reply' = [op |-> "get_confidence_report",
                        flags_before |-> flags,
                        result |-> [confidence_score |-> scored.score,
                                    flags |-> get_flag_summary(scored.flags),
                                    suggestions |-> suggest_improvements(scored.flags)]]
    /\ UNCHANGED <<tables, pc, call, updates, now, files>>

\* ---- recalibration

\* for task, rate in new_rates.items(): if task in self.hourly_rates: ...
\* A variant of update_hourly_rates that changes a copy of the table.
update_hourly_rates_on_copy(rates, new_rates) == rates

update_hourly_rates(rates, new_rates) ==
    [t \in DOMAIN rates |-> IF t \in DOMAIN new_rates THEN new_rates[t] ELSE rates[t]]

\* if task in self.materials: self.materials[task].update(prices)
update_material_prices(table, new_prices) ==
    [t \in DOMAIN table |->
        IF t \in DOMAIN new_prices THEN DictUpdate(table[t], new_prices[t]) ELSE table[t]]

\* if task in self.historical_pricing: self.historical_pricing[task].update(data)
update_historical_pricing(historical, new_data) ==
    [t \in DOMAIN historical |->
        IF t \in DOMAIN new_data THEN DictUpdate(historical[t], new_data[t])
        ELSE historical[t]]

\* if rate_type in self.vat_rates: self.vat_rates[rate_type] = rate
update_vat_rates(rates, new_rates) ==
    [r \in DOMAIN rates |-> IF r \in DOMAIN new_rates THEN new_rates[r] ELSE rates[r]]

\* if vat_type in self.vat_rates: self.task_vat_classification[task] = vat_type
update_task_classifications(classification, rates, new_classifications) ==
    LET accepted == {t \in DOMAIN new_classifications :
                        new_classifications[t] \in DOMAIN rates}
    IN  [t \in (DOMAIN classification) \cup accepted |->
            IF t \in accepted THEN new_classifications[t] ELSE classification[t]]

\* The dicts handed to the update methods, by table; the time estimates are a
\* caller's own for tiling, without setup and cleanup times.
Updates ==
    [hourly_rates |-> {[tiles |-> Rat(50, 1), sauna |-> Rat(60, 1)], [plumbing |-> None]},
     materials |-> {[vanity |-> [base_cost |-> None]]},
     historical_pricing |-> {[vanity |-> [avg |-> Rat(1700, 1)]]},
     vat_rates |-> {[standard |-> Rat(21, 100), zero |-> Zero]},
     task_vat_classification |->
        {[vanity |-> "reduced", sauna |-> "standard"], [tiles |-> "super_reduced"]},
     base_time_estimates |-> {[tiles |-> [per_m2 |-> Rat(2, 1)]]}]

\* An update is made between calls; the results of the calls made before it
\* have been taken by then.
Recalibrate ==
    /\ Quiescent
    /\ updates < MaxUpdates
    /\ updates' = updates + 1
    /\ pc' = [p \in Callers |-> "idle"]
    /\ call' = [p \in Callers |-> NewCall(NoneValue)]
    /\ reply' = [op |-> ""]
    /\ UNCHANGED <<flags, now, files>>

UpdateHourlyRates(new_rates) ==
    /\ Recalibrate
    /\ hourly_rates' = update_hourly_rates(hourly_rates, new_rates)
    /\ UNCHANGED <<materials, base_time_estimates, vat_rates, task_vat_classification,
                   historical_pricing>>

UpdateMaterialPrices(new_prices) ==
    /\ Recalibrate
    /\ materials' = update_material_prices(materials, new_prices)
    /\ UNCHANGED <<hourly_rates, base_time_estimates, vat_rates, task_vat_classification,
                   historical_pricing>>

UpdateHistoricalPricing(new_data) ==
    /\ Recalibrate
    /\ historical_pricing' = update_historical_pricing(historical_pricing, new_data)
    /\ UNCHANGED <<materials, hourly_rates, base_time_estimates, vat_rates,
                   task_vat_classification>>

UpdateVatRates(new_rates) ==
    /\ Recalibrate
    /\ vat_rates' = update_vat_rates(vat_rates, new_rates)
    /\ UNCHANGED <<materials, hourly_rates, base_time_estimates, task_vat_classification,
                   historical_pricing>>

UpdateTaskClassifications(new_classifications) ==
    /\ Recalibrate
    /\ task_vat_classification' =
           update_task_classifications(task_vat_classification, vat_rates,
                                       new_classifications)
    /\ UNCHANGED <<materials, hourly_rates, base_time_estimates, vat_rates,
                   historical_pricing>>

\* labor_calc.base_time_estimates[task] = estimates, assigned by a caller:
\* the table is a public attribute and has no update method.
AssignTimeEstimates(new_estimates) ==
    /\ Recalibrate
    /\ base_time_estimates' = DictUpdate(base_time_estimates, new_estimates)
    /\ UNCHANGED <<materials, hourly_rates, vat_rates, task_vat_classification,
                   historical_pricing>>

\* ---- the arguments of the direct calls

\* The arguments given to the rule engines: the six task types and one that
\* no table knows, sizes from 0 to 50 m2, the quality levels, work values
\* around the limits of the reduced rate, property ages around its limit.
\* The filenames given to save_quote: none, one with the .json extension and
\* one without; the texts quoted by the callers that save their quotes.
\* The estimate given to calculate_confidence between the calls of the
\* engine, and the estimates given to the scorer alone: sizes in the first, the
\* middle and the last range, a city with and one without a score, from no
\* task to six, with and without task lines, final prices on both sides of
\* each price threshold of the default historical reference (542 a m2).
Arguments ==
    [task |-> TaskTypes \cup {"sauna"},
     bathroom_size |->
        {Zero, Rat(1, 1), Rat(4, 1), Rat(6, 1), Rat(25, 2), Rat(16, 1), Rat(50, 1)},
     quality |-> {"basic", "standard", "premium", "luxury"},
     work_value |->
        {Zero, Rat(99999, 100), Rat(1000, 1), Rat(20000, 1), Rat(50000, 1),
         Rat(5000001, 100)},
     property_age |-> {0, 1, 2, 10},
     filename |->
        {[given |-> FALSE, stem |-> "", extension |-> ""],
         [given |-> TRUE, stem |-> "output/test_quote", extension |-> ".json"],
         [given |-> TRUE, stem |-> "output/test_quote", extension |-> ""]},
     transcript |-> {Str(Text.Marseille), Str(Text.Vanity)},
     scored |->
        {[requirements |-> [bathroom_size |-> Rat(1, 1), location |-> "paris",
                            tasks |-> <<"vanity">>],
          task_prices |-> <<[task |-> "vanity", materials |-> Rat(220, 1),
                             labor |-> Rat(210, 1)]>>,
          final_price |-> Rat(600, 1)]},
     estimate |->
        {[requirements |-> [bathroom_size |-> bathroom_size, location |-> location,
                            tasks |-> tasks],
          task_prices |-> priced[1],
          final_price |-> priced[2]] :
            bathroom_size \in {Rat(1, 1), Rat(4, 1), Rat(12, 1)},
            location \in {"paris", "berlin"},
            tasks \in {<<>>, <<"painting">>, <<"tiles", "plumbing">>,
                       <<"tiles", "plumbing", "painting", "flooring", "vanity",
                         "electrical">>},
            priced \in {<<<<>>, Zero>>}
                        \cup ({<<[task |-> "tiles", materials |-> Rat(820, 1),
                                  labor |-> Rat(2300, 1)]>>}
                              \X {Rat(1084, 1), Rat(1700, 1), Rat(2168, 1), Rat(2500, 1),
                                  Rat(3000, 1), Rat(4000, 1)})}]

\* ---- the clock, and save_quote

\* Time passes.
Tick ==
    /\ now < MaxTicks
    /\ now' = now + 1
    /\ UNCHANGED <<tables, flags, pc, call, updates, files, reply>>

\* The digits after the decimal point of rest / den, at most places of them.
RECURSIVE FractionDigits(_, _, _)
FractionDigits(rest, den, places) ==
    IF rest = 0 \/ places = 0 THEN <<>>
    ELSE <<Digits[((rest * 10) \div den) + 1]>>
             \o FractionDigits((rest * 10) % den, den, places - 1)

\* repr(x) of a float, as json.dump writes it: the whole part, the point, and
\* the decimals (one at least, seventeen significant digits at most).
Repr(x) ==
    LET whole    == ToDigits(x.num \div x.den)
        decimals == FractionDigits(x.num % x.den, x.den, 17 - Len(whole))
    IN  whole \o <<".">> \o (IF decimals = <<>> THEN <<"0">> ELSE decimals)

\* float(text) as json.load reads a number: the whole part plus the decimals.
ParseFloat(text) ==
    LET point == CHOOSE i \in 1..Len(text) : text[i] = "."
        frac  == SubSeq(text, point + 1, Len(text))
    IN  RAdd(Rat(DigitsValue(SubSeq(text, 1, point - 1)), 1),
             Rat(DigitsValue(frac), Pow10(Len(frac))))

\* json.dump(quote, f, indent=2, ensure_ascii=False): the text of the
\* document, by field (the identifier and the totals).
Dump(quote) ==
    [quote_id |-> quote.quote_id,
     pricing_breakdown |->
        [labor_total     |-> Repr(quote.pricing_breakdown.labor_total),
         materials_total |-> Repr(quote.pricing_breakdown.materials_total),
         vat_amount      |-> Repr(quote.pricing_breakdown.vat_amount),
         subtotal        |-> Repr(quote.pricing_breakdown.subtotal),
         final_price     |-> Repr(quote.pricing_breakdown.final_price)]]

\* A variant of open(output_path, 'w') that opens the file for appending.
open_to_append(content) == content

\* open(output_path, 'w'): the file is emptied.
open_to_write(content) == <<>>

\* json.load of a file: the document when the file holds one document, an
\* error when it holds none or more.
Load(content) ==
    IF Len(content) # 1 THEN Raise("JSONDecodeError", <<>>)
    ELSE LET text == content[1]
         IN  Return([quote_id |-> text.quote_id,
                     pricing_breakdown |->
                        [k \in DOMAIN text.pricing_breakdown |->
                            ParseFloat(text.pricing_breakdown[k])]])

\* The path that save_quote writes to: output/quote_<quote_id>.json when no
\* filename is given, else the filename, with .json appended when it does not
\* end with it.
OutputPath(quote, filename) ==
    IF ~filename.given THEN <<"output/quote_">> \o quote.quote_id \o <<".json">>
    ELSE <<filename.stem>>
             \o (IF filename.extension = "" THEN <<>> ELSE <<filename.extension>>)
             \o (IF filename.extension # ".json" THEN <<".json">> ELSE <<>>)

\* The documents in the file at path (none when there is no such file).
Content(path) == IF path \in DOMAIN files THEN files[path] ELSE <<>>

\* save_quote(quote, filename) with the quote that caller p was returned.
SaveQuote(p, filename) ==
    /\ Quiescent
    /\ pc[p] = "returned"
    /\ LET quote == call[p].quote
           path  == OutputPath(quote, filename)
           again == reply.op = "save_quote" /\ reply.quote = quote /\ reply.path = path
       IN  /\ files' = [f \in DOMAIN files \cup {path} |->
                           IF f = path
                           THEN Append(open_to_write(Content(path)), Dump(quote))
                           ELSE files[f]]
           /\ reply' = [op |-> "save_quote", quote |-> quote, path |-> path,
                        times |-> IF again THEN "twice" ELSE "once"]
    /\ UNCHANGED <<tables, flags, pc, call, updates, now>>

\* ---- the rule engines called on their own

\* material_db.get_task_materials_cost(task, bathroom_size, quality)
GetTaskMaterialsCost(task, bathroom_size, quality) ==
    /\ Quiescent
    /\ reply' = [op |-> "get_task_materials_cost", task |-> task,
                 bathroom_size |-> bathroom_size, quality |-> quality,
                 result |-> get_task_materials_cost(materials, task, bathroom_size,
                                                    quality)]
    /\ UNCHANGED <<tables, flags, pc, call, updates, now, files>>

\* vat_rules.get_vat_rate(task, work_value, property_age)
GetVatRate(task, work_value, property_age) ==
    /\ Quiescent
    /\ reply' = [op |-> "get_vat_rate", task |-> task, work_value |-> work_value,
                 property_age |-> property_age,
                 result |-> get_vat_rate(vat_rates, task_vat_classification, task,
                                         work_value, property_age)]
    /\ UNCHANGED <<tables, flags, pc, call, updates, now, files>>

\* ---- specifications

\* One caller; every call runs to its end before the next call starts.
Next ==
    \/ \E t \in Transcripts.engine : GenerateQuote("A", t)
    \/ Step("A")
    \/ \E in \in Arguments.scored : CalculateConfidence(in)
    \/ GetConfidenceReport
    \/ \E u \in Updates.hourly_rates : UpdateHourlyRates(u)
    \/ \E u \in Updates.materials : UpdateMaterialPrices(u)
    \/ \E u \in Updates.historical_pricing : UpdateHistoricalPricing(u)
    \/ \E u \in Updates.vat_rates : UpdateVatRates(u)
    \/ \E u \in Updates.task_vat_classification : UpdateTaskClassifications(u)
    \/ \E u \in Updates.base_time_estimates : AssignTimeEstimates(u)

Spec == Init /\ [][Next]_vars

\* Two callers on the same engine, their calls interleaved statement by
\* statement, and no table update.
NextConcurrent ==
    \E p \in Callers :
        \/ \E t \in Transcripts.concurrent : GenerateQuote(p, t)
        \/ Step(p)

SpecConcurrent == Init /\ [][NextConcurrent]_vars

\* parse_transcript called once, on any input.
NextParse == \E t \in ParseInputs : CallParseTranscript("A", t)

SpecParse == Init /\ [][NextParse]_vars

\* The material database and the VAT rules called directly, between updates
\* of the VAT tables.
NextRules ==
    \/ \E task \in Arguments.task, bathroom_size \in Arguments.bathroom_size,
          quality \in Arguments.quality :
           GetTaskMaterialsCost(task, bathroom_size, quality)
    \/ \E task \in Arguments.task, work_value \in Arguments.work_value,
          property_age \in Arguments.property_age :
           GetVatRate(task, work_value, property_age)
    \/ \E u \in Updates.vat_rates : UpdateVatRates(u)
    \/ \E u \in Updates.task_vat_classification : UpdateTaskClassifications(u)

SpecRules == Init /\ [][NextRules]_vars

\* The scorer called directly, between updates of its historical prices.
NextScorer ==
    \/ \E in \in Arguments.estimate : CalculateConfidence(in)
    \/ GetFlagSummary
    \/ SuggestImprovements
    \/ GetConfidenceReport
    \/ \E u \in Updates.historical_pricing : UpdateHistoricalPricing(u)

SpecScorer == Init /\ [][NextScorer]_vars

\* Two callers that take turns, the clock running, each keeping the quote it
\* was returned and saving it.
NextSave ==
    \/ \E p \in Callers : \E t \in Arguments.transcript : Quiescent /\ GenerateQuote(p, t)
    \/ \E p \in Callers : Step(p)
    \/ Tick
    \/ \E p \in Callers : \E filename \in Arguments.filename : SaveQuote(p, filename)

SpecSave == Init /\ [][NextSave]_vars

\* ------------------------------------------------------------------------
\* Properties of generate_quote
\* ------------------------------------------------------------------------

Hundred == Rat(100, 1)

\* The quote that a finished call of caller p returned.
Returned(p) == pc[p] = "returned"
Breakdown(p) == call[p].quote.pricing_breakdown

\* C1: every quote that generate_quote returns has
\* final_price = (subtotal + vat_amount) * (1 + margin), with margin 0.15 for
\* a budget-conscious request and 0.25 otherwise, and
\* subtotal = labor_total + materials_total.
C1_FinalPriceFormula ==
    \A p \in Callers : Returned(p) =>
        LET b == Breakdown(p)
            margin == IF call[p].quote.client_requirements.budget_conscious
                      THEN Rat(15, 100) ELSE Rat(25, 100)
        IN  /\ b.subtotal = RAdd(b.labor_total, b.materials_total)
            /\ b.final_price = RMul(RAdd(b.subtotal, b.vat_amount), RAdd(One, margin))

\* A budget-conscious quote with a positive price and VAT has been returned.
C1_Witness ==
    \E p \in Callers :
        /\ Returned(p)
        /\ call[p].quote.client_requirements.budget_conscious
        /\ Less(Zero, Breakdown(p).vat_amount)
        /\ Less(Breakdown(p).subtotal, Breakdown(p).final_price)

\* The invalid inputs: not a string, empty, or shorter than 10 characters.
InvalidText(v) == v.type # "str" \/ Len(v.chars) < 10

\* C2: a call of generate_quote with an invalid text (empty, not a string,
\* shorter than 10 characters) never gets past parsing: no material, labor,
\* VAT or confidence computation is made for it and it builds no quote.
C2_InvalidTextFailsFirst ==
    \A p \in Callers : (pc[p] # "idle" /\ InvalidText(call[p].transcript)) =>
        /\ pc[p] \in {"parse", "raised"}
        /\ call[p].work = NoWork
        /\ call[p].task_prices = <<>>
        /\ DOMAIN call[p].quote = {}

\* A call with a text of five characters has failed.
C2_Witness ==
    \E p \in Callers :
        /\ pc[p] = "raised"
        /\ call[p].transcript = Str(Text.Short)
        /\ call[p].work = NoWork

\* C3: the failure of generate_quote on an invalid transcript (empty, or
\* shorter than 10 characters) reaches the caller as a ValueError, not as a
\* RuntimeError.
C3_InvalidTextRaisesValueError ==
    \A p \in Callers :
        (pc[p] = "raised" /\ InvalidText(call[p].transcript)) =>
            call[p].exc = "ValueError"

\* A line of the breakdown that stands for a task whose cost computation
\* raised.
HasFailedTask(task_prices) ==
    \E i \in 1..Len(task_prices) : "error" \in DOMAIN task_prices[i]

\* C4: a call in which the material or labor computation of a task raised
\* does not fail: the exception never aborts the quote.
C4_TaskFailureNeverAborts ==
    \A p \in Callers : HasFailedTask(call[p].task_prices) => pc[p] # "raised"

\* What generate_quote(transcript) returns when no other call runs.
Alone(transcript) == generate_quote(<<>>, transcript)

\* C5: with two calls of generate_quote running at once on one engine, each
\* returns the pricing breakdown and the confidence score it returns alone.
C5_ConcurrentCallsAsAlone ==
    \A p \in Callers : Returned(p) =>
        LET alone == Alone(call[p].transcript).value
        IN  /\ call[p].quote.pricing_breakdown = alone.pricing_breakdown
            /\ call[p].quote.business_metrics.confidence_score
                   = alone.business_metrics.confidence_score

\* C6: the requirements, the pricing breakdown and the confidence score of
\* a returned quote are those that the text and the current tables give on
\* a scorer without flags, whatever calls were made before on the engine.
C6_IndependentOfEarlierCalls ==
    \A p \in Callers : Returned(p) =>
        LET fresh == Alone(call[p].transcript)
        IN  /\ fresh.exc = ""
            /\ call[p].quote.client_requirements = fresh.value.client_requirements
            /\ call[p].quote.pricing_breakdown = fresh.value.pricing_breakdown
            /\ call[p].quote.business_metrics.confidence_score
                   = fresh.value.business_metrics.confidence_score

\* A quote has been returned by a call that found flags of an earlier call
\* in the scorer, and that raised a flag itself.
C6_Witness ==
    \E p \in Callers :
        /\ Returned(p)
        /\ call[p].stale_flags
        /\ flags # <<>>

\* C7: the confidence score of every returned quote lies in [0, 100].
C7_ConfidenceScoreInRange ==
    \A p \in Callers : Returned(p) =>
        LET confidence_score == call[p].quote.business_metrics.confidence_score
        IN  /\ IsNumber(confidence_score)
            /\ Leq(Zero, confidence_score)
            /\ Leq(confidence_score, Hundred)

\* A quote with a confidence score above 90 has been returned.
C7_Witness ==
    \E p \in Callers :
        /\ Returned(p)
        /\ Less(Rat(90, 1), call[p].quote.business_metrics.confidence_score)

\* ------------------------------------------------------------------------
\* Properties of parse_transcript
\* ------------------------------------------------------------------------

\* The text that the extraction works on, and what parsing made of it.
Normalised(p) == Strip(Lower(call[p].transcript.chars))
Parsed(p) == call[p].requirements

\* The task types with a keyword that occurs in the text.
Mentioned(text) ==
    {task_keywords[i].task : i \in {j \in 1..Len(task_keywords) :
        \E k \in 1..Len(task_keywords[j].keywords) :
            Contains(text, task_keywords[j].keywords[k])}}

\* C8: the parsed task list is never empty, and a text without any task
\* keyword gives exactly the list [painting].
C8_TasksNeverEmpty ==
    \A p \in Callers : Returned(p) =>
        /\ Parsed(p).tasks # <<>>
        /\ Mentioned(Normalised(p)) = {} => Parsed(p).tasks = <<"painting">>

\* A text without any task keyword has been parsed.
C8_Witness ==
    \E p \in Callers :
        /\ Returned(p)
        /\ Mentioned(Normalised(p)) = {}
        /\ Parsed(p).tasks = <<"painting">>

\* The order in which the detected tasks are listed.
CanonicalOrder == <<"tiles", "plumbing", "painting", "flooring", "vanity", "electrical">>

\* C9: when a task keyword occurs, the task list holds exactly the task
\* types with a keyword occurring as a substring of the lower-cased text, in
\* the order tiles, plumbing, painting, flooring, vanity, electrical; the
\* Marseille scenario gives tiles and plumbing.
C9_TasksInCanonicalOrder ==
    \A p \in Callers : Returned(p) =>
        LET text == Normalised(p)
        IN  /\ Mentioned(text) # {} =>
                   Parsed(p).tasks = SelectSeq(CanonicalOrder, LAMBDA t : t \in Mentioned(text))
            /\ call[p].transcript = Str(Text.Marseille) =>
                   Parsed(p).tasks = <<"tiles", "plumbing">>

\* The text "plumbing tiles", which names plumbing first, has been parsed
\* to tiles and plumbing.
C9_Witness ==
    \E p \in Callers :
        /\ Returned(p)
        /\ call[p].transcript = Str(Join(<<Fragment.plumbing, Fragment.tiles>>))
        /\ Parsed(p).tasks = <<"tiles", "plumbing">>

\* The keys of the city table in their order.
CityOrder ==
    <<"marseille", "paris", "nice", "lyon", "toulouse", "nantes", "strasbourg",
      "montpellier">>

\* The places in the city table of the cities whose name occurs in the text.
CitiesFound(text) ==
    {i \in 1..Len(city_multipliers) : Contains(text, city_multipliers[i].chars)}

\* C10: the location is the first key of the city table, in the order
\* marseille, paris, nice, lyon, toulouse, nantes, strasbourg, montpellier,
\* whose name occurs in the lower-cased text, and marseille (multiplier 1.0)
\* when none occurs; it is always a key of the table.
C10_LocationFirstInTableOrder ==
    \A p \in Callers : Returned(p) =>
        LET found == CitiesFound(Normalised(p))
        IN  /\ [i \in 1..Len(city_multipliers) |-> city_multipliers[i].city] = CityOrder
            /\ Parsed(p).location \in Cities
            /\ found = {} =>
                   Parsed(p).location = "marseille" /\ CityMultiplier("marseille") = One
            /\ found # {} =>
                   Parsed(p).location = CityOrder[CHOOSE i \in found : \A j \in found : i <= j]

\* The text "Paris marseille", which names Paris first, has been located in
\* marseille.
C10_Witness ==
    \E p \in Callers :
        /\ Returned(p)
        /\ call[p].transcript = Str(Join(<<Fragment.Paris, Fragment.marseille>>))
        /\ Parsed(p).location = "marseille"

\* C11: every requirement that parse_transcript returns has a bathroom size
\* above zero.
C11_SizePositive ==
    \A p \in Callers : Returned(p) => Less(Zero, Parsed(p).bathroom_size)

\* ------------------------------------------------------------------------
\* Properties of the material database and the VAT rules
\* ------------------------------------------------------------------------

\* The last direct call was get_task_materials_cost and returned a cost.
CostReplied == reply.op = "get_task_materials_cost" /\ reply.result.exc = ""

\* The cost of the replied call's task at another size and quality.
CostAt(bathroom_size, quality) ==
    get_task_materials_cost(materials, reply.task, bathroom_size, quality).value

\* The quality levels from the cheapest to the dearest.
QualityOrder == <<"basic", "standard", "premium", "luxury">>

\* C12: for every task and size the material cost of a quality level is at
\* least the cost of every lower level: luxury >= premium >= standard >= basic.
C12_CostMonotoneInQuality ==
    CostReplied =>
        \A i, j \in 1..Len(QualityOrder) :
            (i < j /\ reply.quality = QualityOrder[j]) =>
                Leq(CostAt(reply.bathroom_size, QualityOrder[i]), reply.result.value)

\* C13: for tiles, painting and flooring, at a fixed quality, the material
\* cost of a size is at least the cost of every smaller size.
C13_CostMonotoneInSize ==
    (CostReplied /\ reply.task \in {"tiles", "painting", "flooring"}) =>
        \A smaller \in Arguments.bathroom_size :
            Leq(smaller, reply.bathroom_size) =>
                Leq(CostAt(smaller, reply.quality), reply.result.value)

\* The flooring of 12.5 m2 has been costed, and costs more than that of 6 m2.
C13_Witness ==
    /\ CostReplied
    /\ reply.task = "flooring"
    /\ reply.bathroom_size = Rat(25, 2)
    /\ Less(CostAt(Rat(6, 1), reply.quality), reply.result.value)

\* The last direct call was get_vat_rate.
RateReplied == reply.op = "get_vat_rate"

\* The VAT class of the replied call's task; a task without a class is
\* charged as a standard one.
ClassOfTask ==
    IF reply.task \in DOMAIN task_vat_classification
    THEN task_vat_classification[reply.task] ELSE "standard"

\* The conditions of the reduced rate on the replied call's arguments.
MeetsConditions ==
    /\ Leq(Rat(1000, 1), reply.work_value)
    /\ Leq(reply.work_value, Rat(50000, 1))
    /\ reply.property_age >= 2

PlumbingFixtures == {"shower", "toilet", "sink"}

\* C19: the plumbing material cost is the sum, over the shower, the toilet
\* and the sink and no other fixture, of base cost times size factor, at every
\* size.
C19_PlumbingCostOfThreeFixtures ==
    (CostReplied /\ reply.task = "plumbing") =>
        reply.result.value =
            Round(SumValues([f \in PlumbingFixtures |->
                                RMul(materials.plumbing[f].base_cost,
                                     materials.plumbing[f].size_factor)],
                            PlumbingFixtures), 2)

\* ------------------------------------------------------------------------
\* Properties of quotes compared, and of recalibration
\* ------------------------------------------------------------------------

\* Pairs of texts that differ in the city only: the one in marseille
\* (multiplier 1.0), the other in paris (multiplier 1.3).
LocationPairs ==
    {<<Text.RenovateMarseille, Text.Paris>>, <<Text.Marseille, Text.ScenarioParis>>}

\* The requirements r and q agree in everything but the location.
SameButLocation(r, q) ==
    /\ r.bathroom_size = q.bathroom_size
    /\ r.tasks = q.tasks
    /\ r.budget_conscious = q.budget_conscious
    /\ r.location # q.location

\* Every line of the breakdown is a fallback line.
AllTasksFailed(task_prices) ==
    \A i \in 1..Len(task_prices) : "error" \in DOMAIN task_prices[i]

\* C14 as stated: of two requirements that differ in the location only, the
\* one in paris (1.3) has a strictly larger final price than the one in
\* marseille (1.0), for every non-empty task set.
C14_DearerInParis ==
    \A p \in Callers : \A pair \in LocationPairs :
        (Returned(p) /\ call[p].transcript = Str(pair[2])) =>
            LET there == Alone(Str(pair[1]))
            IN  /\ there.exc = ""
                /\ Less(there.value.pricing_breakdown.final_price, Breakdown(p).final_price)

\* C14: of two requirements that differ in the location only, the one in
\* paris (1.3) has a strictly larger final price than the one in marseille
\* (1.0) when a task line is priced from the tables; when every task line
\* is a fallback line the two final prices are equal.
C14_DearerInParisUnlessFallback ==
    \A p \in Callers : \A pair \in LocationPairs :
        (Returned(p) /\ call[p].transcript = Str(pair[2])) =>
            LET there == Alone(Str(pair[1]))
                here_price == Breakdown(p).final_price
            IN  /\ there.exc = ""
                /\ there.value.client_requirements.location = "marseille"
                /\ call[p].quote.client_requirements.location = "paris"
                /\ call[p].quote.business_metrics.city_multiplier = Rat(13, 10)
                /\ there.value.business_metrics.city_multiplier = One
                /\ SameButLocation(there.value.client_requirements,
                                   call[p].quote.client_requirements)
                /\ Breakdown(p).tasks # <<>>
                /\ IF AllTasksFailed(Breakdown(p).tasks)
                   THEN there.value.pricing_breakdown.final_price = here_price
                   ELSE Less(there.value.pricing_breakdown.final_price, here_price)

\* The scenario has been quoted in paris with the plumbing line a fallback
\* line and the tiles line priced from the tables.
C14_Witness ==
    \E p \in Callers :
        /\ Returned(p)
        /\ call[p].transcript = Str(Text.ScenarioParis)
        /\ HasFailedTask(Breakdown(p).tasks)
        /\ ~AllTasksFailed(Breakdown(p).tasks)
        /\ Less(Alone(Str(Text.Marseille)).value.pricing_breakdown.final_price,
                Breakdown(p).final_price)

\* Pairs of texts that differ in one word only, a budget keyword in the first.
BudgetPairs == {<<Text.Budget, Text.Luxury>>}

\* C15: of two texts that differ in a budget keyword only, the quote of the
\* text with the keyword reports a strictly lower margin_percentage.
C15_BudgetLowersMargin ==
    \A p \in Callers : \A pair \in BudgetPairs :
        (Returned(p) /\ call[p].transcript = Str(pair[1])) =>
            LET other == Alone(Str(pair[2]))
                mine == call[p].quote
            IN  /\ other.exc = ""
                /\ mine.client_requirements.budget_conscious
                /\ ~other.value.client_requirements.budget_conscious
                /\ mine.client_requirements.tasks = other.value.client_requirements.tasks
                /\ mine.pricing_breakdown.subtotal = other.value.pricing_breakdown.subtotal
                /\ Less(mine.business_metrics.margin_percentage,
                        other.value.business_metrics.margin_percentage)

\* The text with the budget keyword has been quoted, with a margin above zero.
C15_Witness ==
    \E p \in Callers :
        /\ Returned(p)
        /\ call[p].transcript = Str(Text.Budget)
        /\ Less(Zero, call[p].quote.business_metrics.margin_percentage)

\* The table new is the table old with the values of u put at the keys that
\* u names and old has.
Replaced(old, new, u) ==
    /\ DOMAIN new = DOMAIN old
    /\ \A k \in DOMAIN old : new[k] = IF k \in DOMAIN u THEN u[k] ELSE old[k]

\* The same for a table of tables: the keys are pairs of a task and a field.
ReplacedWithin(old, new, u) ==
    /\ DOMAIN new = DOMAIN old
    /\ \A t \in DOMAIN old :
          IF t \in DOMAIN u THEN /\ DOMAIN old[t] \subseteq DOMAIN new[t]
                                 /\ Replaced(old[t], [k \in DOMAIN old[t] |-> new[t][k]], u[t])
                                 /\ \A k \in DOMAIN u[t] : new[t][k] = u[t][k]
          ELSE new[t] = old[t]

\* A step that makes an update makes one of these: one of the four
\* recalibration updates, which leaves its table as it was but for the named
\* keys and changes no other table, or a change of the VAT classes or of the
\* time estimates.
UpdateStep ==
    \/ /\ \E u \in Updates.hourly_rates : Replaced(hourly_rates, hourly_rates', u)
       /\ UNCHANGED <<materials, base_time_estimates, vat_rates, task_vat_classification,
                      historical_pricing>>
    \/ /\ \E u \in Updates.vat_rates : Replaced(vat_rates, vat_rates', u)
       /\ UNCHANGED <<materials, hourly_rates, base_time_estimates,
                      task_vat_classification, historical_pricing>>
    \/ /\ \E u \in Updates.materials : ReplacedWithin(materials, materials', u)
       /\ UNCHANGED <<hourly_rates, base_time_estimates, vat_rates,
                      task_vat_classification, historical_pricing>>
    \/ /\ \E u \in Updates.historical_pricing :
              ReplacedWithin(historical_pricing, historical_pricing', u)
       /\ UNCHANGED <<materials, hourly_rates, base_time_estimates, vat_rates,
                      task_vat_classification>>
    \/ /\ \/ \E u \in Updates.task_vat_classification :
                 task_vat_classification' =
                     update_task_classifications(task_vat_classification, vat_rates, u)
          \/ \E u \in Updates.base_time_estimates :
                 base_time_estimates' = DictUpdate(base_time_estimates, u)
       /\ UNCHANGED <<materials, hourly_rates, vat_rates, historical_pricing>>

\* The returned quote of caller p is the one that the tables of the moment
\* give for its requirements.
ComputedFromTables(p) ==
    LET q == call[p].quote
        task_prices == TaskPrices(q.client_requirements)
    IN  /\ q.pricing_breakdown.tasks = task_prices
        /\ q.pricing_breakdown.vat_amount =
               calculate_total_vat(vat_rates, task_vat_classification, task_prices, Zero, 10)
        /\ q.business_metrics.confidence_score =
               calculate_confidence(<<>>, historical_pricing, q.client_requirements,
                                    task_prices, q.pricing_breakdown.final_price).score

\* C20: a recalibration update replaces the value at each named key that
\* exists and leaves every other entry as it was, and the quotes made after
\* it are computed with the updated tables.
C20_UpdatesReplaceNamedKeys ==
    /\ [][updates' # updates => UpdateStep]_vars
    /\ [](\A p \in Callers : Returned(p) => ComputedFromTables(p))

\* After the update of the hourly rate of tiles to 50 a quote with a tiles
\* line has been returned, its labor other than at the rate of 45.
C20_Witness ==
    \E p \in Callers :
        /\ Returned(p)
        /\ updates > 0
        /\ hourly_rates["tiles"] = Rat(50, 1)
        /\ hourly_rates["plumbing"] = DefaultHourlyRates["plumbing"]
        /\ \E i \in 1..Len(Breakdown(p).tasks) :
              /\ Breakdown(p).tasks[i].task = "tiles"
              /\ Breakdown(p).tasks[i] #
                     calculate_task_price(materials, DefaultHourlyRates, base_time_estimates,
                                          "tiles", call[p].quote.client_requirements)

\* ------------------------------------------------------------------------
\* Properties of the quote identifier and of save_quote
\* ------------------------------------------------------------------------

\* C16: the quotes that two calls of generate_quote returned have different
\* quote_id values, whatever the time between the calls.
C16_QuoteIdsDistinct ==
    \A p, q \in Callers :
        (p # q /\ Returned(p) /\ Returned(q)) =>
            call[p].quote.quote_id # call[q].quote.quote_id

\* The last direct call was save_quote.
Saved == reply.op = "save_quote"

\* C17: the document that save_quote wrote reads back with the quote_id and
\* the labor, materials, VAT, subtotal and final-price values of the quote,
\* and after writing the same quote to the same path twice the file holds
\* the document that one writing leaves.
C17_SaveRoundTrip ==
    Saved =>
        LET read == Load(Content(reply.path))
            b == reply.quote.pricing_breakdown
        IN  /\ Content(reply.path) = <<Dump(reply.quote)>>
            /\ read.exc = ""
            /\ read.value.quote_id = reply.quote.quote_id
            /\ read.value.pricing_breakdown =
                   [labor_total |-> b.labor_total, materials_total |-> b.materials_total,
                    vat_amount |-> b.vat_amount, subtotal |-> b.subtotal,
                    final_price |-> b.final_price]

\* A quote whose final price has decimals has been written twice to the path
\* made from its quote_id.
C17_Witness ==
    /\ Saved
    /\ reply.times = "twice"
    /\ reply.path[1] = "output/quote_"
    /\ reply.quote.pricing_breakdown.final_price.den > 1
    /\ Load(Content(reply.path)).exc = ""

\* ------------------------------------------------------------------------
\* Properties of the VAT of a quote
\* ------------------------------------------------------------------------

\* The VAT of the lines, each amount taxed at rate(line).
VatOfLines(task_prices, rate(_)) ==
    RSum([i \in 1..Len(task_prices) |->
            LET line == task_prices[i]
            IN  RAdd(Round(RMul(line.materials, rate(line)), 2),
                     Round(RMul(line.labor, rate(line)), 2))])

\* The rate of the class of the task of a line, at the work value and the
\* property age that generate_quote leaves at their defaults (0 and 10): a
\* reduced task misses the least work value and has the standard rate.
OwnRate(line) ==
    LET class == IF line.task \in DOMAIN task_vat_classification
                 THEN task_vat_classification[line.task] ELSE "standard"
    IN  IF class = "reduced" THEN vat_rates["standard"] ELSE vat_rates[class]

\* C21: the vat_amount of every returned quote is the sum over its lines of
\* the VAT on the materials plus the VAT on the labor, each at the rate of
\* the line's own task type, after any update of the VAT tables.
C21_VatAtOwnRates ==
    \A p \in Callers : Returned(p) =>
        Breakdown(p).vat_amount = Round(VatOfLines(Breakdown(p).tasks, OwnRate), 2)

\* The rule tables are the default ones.
DefaultTables ==
    /\ vat_rates = DefaultVatRates
    /\ task_vat_classification = DefaultVatClassification

StandardRate(line) == Rat(20, 100)

\* C22: under the default rule tables every line of a returned quote is
\* taxed at the standard rate 0.20, materials and labor, whatever the class
\* of its task and the value of the work.
C22_StandardRateOnly ==
    \A p \in Callers : (Returned(p) /\ DefaultTables) =>
        Breakdown(p).vat_amount = Round(VatOfLines(Breakdown(p).tasks, StandardRate), 2)

\* Under the default tables a quote has been returned with a line of a
\* reduced-class task, a line of the standard-class vanity, and a work value
\* within the limits of the reduced rate.
C22_Witness ==
    \E p \in Callers :
        /\ Returned(p)
        /\ DefaultTables
        /\ \E i, j \in 1..Len(Breakdown(p).tasks) :
              /\ Breakdown(p).tasks[i].task = "tiles"
              /\ Breakdown(p).tasks[j].task = "vanity"
        /\ Leq(Rat(1000, 1), Breakdown(p).subtotal)
        /\ Leq(Breakdown(p).subtotal, Rat(50000, 1))
        /\ Less(Zero, Breakdown(p).vat_amount)

\* ------------------------------------------------------------------------
\* Properties of the fallback line
\* ------------------------------------------------------------------------

\* The multiplier of each city.
MultiplierOfCity ==
    [marseille |-> One, paris |-> Rat(13, 10), nice |-> Rat(5, 4), lyon |-> Rat(23, 20),
     toulouse |-> Rat(11, 10), nantes |-> Rat(21, 20), strasbourg |-> Rat(11, 10),
     montpellier |-> Rat(21, 20)]

\* C23: a line of a task whose calculation failed carries materials 100,
\* labor 200, total 300, an error marker and city_multiplier 1.0; the totals
\* of the quote are the sums of the lines as they are, the fallback amounts
\* not multiplied, and the city_multiplier of the quote is that of the
\* location.
C23_FallbackLine ==
    \A p \in Callers : Returned(p) =>
        LET lines == Breakdown(p).tasks
            quote == call[p].quote
        IN  /\ \A i \in 1..Len(lines) :
                  "error" \in DOMAIN lines[i] =>
                      /\ lines[i].materials = Hundred
                      /\ lines[i].labor = Rat(200, 1)
                      /\ lines[i].total = Rat(300, 1)
                      /\ lines[i].city_multiplier = One
                      /\ lines[i].error # ""
            /\ Breakdown(p).labor_total = RSum([i \in 1..Len(lines) |-> lines[i].labor])
            /\ Breakdown(p).materials_total =
                   RSum([i \in 1..Len(lines) |-> lines[i].materials])
            /\ quote.business_metrics.city_multiplier =
                   MultiplierOfCity[quote.client_requirements.location]

\* A quote for paris has been returned with a fallback line and a line
\* priced from the tables, its city_multiplier 1.3.
C23_Witness ==
    \E p \in Callers :
        /\ Returned(p)
        /\ call[p].quote.client_requirements.location = "paris"
        /\ call[p].quote.business_metrics.city_multiplier = Rat(13, 10)
        /\ HasFailedTask(Breakdown(p).tasks)
        /\ ~AllTasksFailed(Breakdown(p).tasks)

\* ------------------------------------------------------------------------
\* Properties of the confidence scorer
\* ------------------------------------------------------------------------

\* The last direct call was calculate_confidence.
ScoreReplied == reply.op = "calculate_confidence"

\* The sub-scores of the replied estimate, each computed on a scorer without
\* flags, and the flags that its scoring fires.
SubScores ==
    LET r == reply.in.requirements
        size  == calculate_size_confidence(<<>>, r.bathroom_size)
        task  == calculate_task_confidence(<<>>, r.tasks)
        price == calculate_price_confidence(<<>>, historical_pricing, reply.in.task_prices,
                                            reply.in.final_price)
    IN  [size |-> size.score,
         location |-> calculate_location_confidence(r.location),
         tasks |-> task.score,
         price |-> price.score,
         complexity |-> calculate_complexity_confidence(r.tasks),
         fired |-> size.flags \o task.flags \o price.flags]

\* C24: calculate_confidence returns max(W * 100 * (1 - min(0.05 n, 0.20)), 0)
\* rounded to 1 decimal, W the sum of 0.15 size, 0.10 location, 0.20 tasks,
\* 0.35 price and 0.20 complexity sub-scores and n the number of flags fired
\* during that call, the flags of earlier calls not counted.
C24_ConfidenceFormula ==
    ScoreReplied =>
        LET sub == SubScores
            n == Len(sub.fired)
            W == RSum(<<RMul(Rat(15, 100), sub.size), RMul(Rat(10, 100), sub.location),
                        RMul(Rat(20, 100), sub.tasks), RMul(Rat(35, 100), sub.price),
                        RMul(Rat(20, 100), sub.complexity)>>)
            penalty == RMin(RMul(Rat(5, 100), Rat(n, 1)), Rat(20, 100))
        IN  /\ flags = sub.fired
            /\ reply.result =
                   Round(RMax(RMul(RMul(W, Hundred), RSub(One, penalty)), Zero), 1)

\* An estimate that fires one flag only has been scored.
C24_Witness ==
    /\ ScoreReplied
    /\ Len(flags) = 1
    /\ Less(Zero, reply.result)

\* The ratio of the replied estimate: its final price over the reference
\* area 4.0, over the sum of the historical averages.
PriceRatio ==
    RDiv(RDiv(reply.in.final_price, Rat(4, 1)),
         RSum(<<historical_pricing.tiles.avg, historical_pricing.plumbing.avg,
                historical_pricing.painting.avg, historical_pricing.flooring.avg,
                historical_pricing.vanity.avg, historical_pricing.electrical.avg>>))

\* The price sub-score of the replied estimate and the flag list it fires.
PriceScored ==
    calculate_price_confidence(<<>>, historical_pricing, reply.in.task_prices,
                               reply.in.final_price)

\* The estimate that was scored has task lines.
PriceReplied == ScoreReplied /\ reply.in.task_prices # <<>>

\* C25 as stated: the ratio maps to 0.6 with suspiciously_low up to 0.5, 0.8
\* with below_average up to 0.8, 1.0 with no flag up to 1.0, 0.9 with
\* above_average up to 1.3, 0.7 with above_average up to 1.8, and 0.7 with
\* suspiciously_high above 1.8 only.
C25_PriceBucketsAsStated ==
    PriceReplied =>
        PriceScored =
            IF Leq(PriceRatio, Rat(5, 10)) THEN Scored(Rat(6, 10), <<"suspiciously_low">>)
            ELSE IF Leq(PriceRatio, Rat(8, 10)) THEN Scored(Rat(8, 10), <<"below_average">>)
            ELSE IF Leq(PriceRatio, One) THEN Scored(One, <<>>)
            ELSE IF Leq(PriceRatio, Rat(13, 10)) THEN Scored(Rat(9, 10), <<"above_average">>)
            ELSE IF Leq(PriceRatio, Rat(18, 10)) THEN Scored(Rat(7, 10), <<"above_average">>)
            ELSE Scored(Rat(7, 10), <<"suspiciously_high">>)

\* C25: the ratio maps to 0.6 with suspiciously_low up to 0.5, 0.8 with
\* below_average up to 0.8, 1.0 with no flag up to 1.0, 0.9 with
\* above_average up to 1.3, and 0.7 with suspiciously_high above 1.3, up to
\* 1.8 and beyond; the size of the requirement has no part in it.
C25_PriceBuckets ==
    PriceReplied =>
        /\ PriceScored =
              IF Leq(PriceRatio, Rat(5, 10)) THEN Scored(Rat(6, 10), <<"suspiciously_low">>)
              ELSE IF Leq(PriceRatio, Rat(8, 10))
              THEN Scored(Rat(8, 10), <<"below_average">>)
              ELSE IF Leq(PriceRatio, One) THEN Scored(One, <<>>)
              ELSE IF Leq(PriceRatio, Rat(13, 10))
              THEN Scored(Rat(9, 10), <<"above_average">>)
              ELSE Scored(Rat(7, 10), <<"suspiciously_high">>)
        /\ \A i \in 1..Len(PriceScored.flags) : InList(PriceScored.flags[i], flags)

\* An estimate of 12 m2 with a ratio between 1.3 and 1.8 has been scored and
\* the flag suspiciously_high fired.
C25_Witness ==
    /\ PriceReplied
    /\ Less(Rat(13, 10), PriceRatio)
    /\ Leq(PriceRatio, Rat(18, 10))
    /\ reply.in.requirements.bathroom_size = Rat(12, 1)
    /\ InList("suspiciously_high", flags)

\* C26: suggest_improvements returns one suggestion for each fired flag: the
\* list is as long as the flag list.
C26_OneSuggestionPerFlag ==
    reply.op = "suggest_improvements" => Len(reply.result) = Len(flags)

\* The last direct call was get_flag_summary.
SummaryReplied == reply.op = "get_flag_summary"

\* A flag of a kind has fired.
Fired(kinds) == \E i \in 1..Len(flags) : flags[i] \in kinds

\* The flags that tell of a missing essential task.
MissingEssentialFlags ==
    {"missing_essential_tasks: plumbing, tiles", "missing_essential_tasks: plumbing",
     "missing_essential_tasks: tiles"}

\* C27: the severity is none iff no flag fired, high iff a suspiciously_low,
\* suspiciously_high or no_tasks_detected flag fired, otherwise medium iff an
\* unusually_small, unusually_large or missing-essential-tasks flag fired,
\* otherwise low.
C27_SeverityClasses ==
    SummaryReplied =>
        reply.result.severity =
            IF flags = <<>> THEN "none"
            ELSE IF Fired({"suspiciously_low", "suspiciously_high", "no_tasks_detected"})
            THEN "high"
            ELSE IF Fired({"unusually_small", "unusually_large"} \cup MissingEssentialFlags)
            THEN "medium"
            ELSE "low"

\* C28: get_flag_summary places every fired flag in exactly one of the four
\* categories: the sizes of the four lists sum to total_flags.
C28_EveryFlagInOneCategory ==
    SummaryReplied =>
        LET c == reply.result.flag_categories
        IN  /\ reply.result.total_flags = Len(flags)
            /\ Len(c.size_issues) + Len(c.task_issues) + Len(c.price_issues)
                   + Len(c.location_issues) = reply.result.total_flags

\* C29: after get_confidence_report the flags are exactly no_tasks_detected,
\* whatever estimate was scored before, and the score, the flag summary and
\* the suggestions of the report are the same constants.
C29_ReportOfEmptyEstimate ==
    reply.op = "get_confidence_report" =>
        /\ flags = <<"no_tasks_detected">>
        /\ reply.result.confidence_score = Rat(594, 10)
        /\ reply.result.flags.total_flags = 1
        /\ reply.result.flags.all_flags = <<"no_tasks_detected">>
        /\ reply.result.flags.flag_categories =
               [size_issues |-> <<>>, task_issues |-> <<"no_tasks_detected">>,
                price_issues |-> <<>>, location_issues |-> <<>>]
        /\ reply.result.flags.severity = "high"
        /\ reply.result.suggestions = <<>>

\* The report has been asked for on a scorer that held the three flags of an
\* earlier estimate, none of them no_tasks_detected.
C29_Witness ==
    /\ reply.op = "get_confidence_report"
    /\ Len(reply.flags_before) = 3
    /\ ~InList("no_tasks_detected", reply.flags_before)
    /\ flags = <<"no_tasks_detected">>

\* ------------------------------------------------------------------------
\* Properties of the key sets of the rule tables
\* ------------------------------------------------------------------------

\* C30: after any sequence of recalibration calls the key set of every rule
\* table is its initial key set: no task type and no rate class is added.
C30_KeySetsFixed ==
    /\ DOMAIN hourly_rates = DOMAIN DefaultHourlyRates
    /\ DOMAIN materials = DOMAIN DefaultMaterials
    /\ DOMAIN historical_pricing = DOMAIN DefaultHistoricalPricing
    /\ DOMAIN vat_rates = DOMAIN DefaultVatRates
    /\ DOMAIN task_vat_classification = DOMAIN DefaultVatClassification

====
